---- MODULE Spec2Model ----
(***************************************************************************)
(* Model of the contract generator's editing session (the operation        *)
(* sequencer of renderer/AgreementForm.tsx with the App-level preview      *)
(* state of renderer/App.tsx) and of the compile orchestrator              *)
(* (main/generator.ts compilePdf with the generate-pdf handler of          *)
(* main/main.ts).                                                          *)
(*                                                                         *)
(* Spec        : one mounted AgreementForm, its timers, its requests in    *)
(*               flight and the agreement_data.json of every project.      *)
(* SpecCompile : concurrent generate-pdf invocations on one project        *)
(*               directory.                                                *)
(* SpecProjects : the project operations of main.ts on the directories     *)
(*               under and beside the projects root.                       *)
(* SpecConfig  : the configuration service of config.ts with its caches    *)
(*               and the user's config.json.                               *)
(* SpecShares, SpecReconcile, SpecSanitize, SpecPdfInput, SpecGenerate :   *)
(*               computeShareMetrics, the toPersisted/toFormValues round   *)
(*               trip, sanitize, toPdfInput and generateConfig, each       *)
(*               evaluated on one input.                                   *)
(* SpecLegacy, SpecUnreadable, SpecLive : the session of Spec opened on a  *)
(*               legacy file, on an unreadable file under valid defaults,  *)
(*               and under fair timers with a compiler that succeeds.      *)
(***************************************************************************)
EXTENDS Integers, Sequences, FiniteSets, TLC

(***************************************************************************)
(* Optional values (null | x) are sequences of length 0 or 1.              *)
(***************************************************************************)
Null == <<>>
Some(x) == <<x>>

(***************************************************************************)
(* JavaScript values of the share fields.  Numbers are held in thousandths *)
(* of a percent, so that 60 % is 60000 and the 0.01 tolerance is 10.       *)
(* JsString stands for a string that Number() does not parse, as it can be *)
(* read from a JSON file.                                                  *)
(***************************************************************************)
JsNumber(n) == [t |-> "number", n |-> n]
JsNaN == [t |-> "NaN", n |-> 0]
JsString == [t |-> "string", n |-> 0]
JsNull == [t |-> "null", n |-> 0]
Percent(p) == p * 1000

\* Number(v ?? 0)
NumberOrZero(v) ==
  IF v.t = "null" THEN JsNumber(0)
  ELSE IF v.t = "number" THEN v
  ELSE JsNaN

\* Number.isFinite
IsFinite(x) == x.t = "number"

\* a + b on JavaScript numbers
JsAdd(a, b) == IF IsFinite(a) /\ IsFinite(b) THEN JsNumber(a.n + b.n) ELSE JsNaN

\* Number.parseFloat(x.toFixed(2)): two decimals, NaN stays NaN
ToFixed2(x) ==
  IF IsFinite(x) THEN JsNumber(((x.n + 5) \div 10) * 10) ELSE JsNaN

\* Math.abs(total - 100) > 0.01.  A comparison with NaN is false.  total has
\* two decimals; in IEEE doubles 100.01 - 100 = 0.010000000000005116 > 0.01,
\* so a distance of exactly one hundredth already compares greater.
OffByMoreThanTolerance(total) ==
  /\ IsFinite(total)
  /\ (IF total.n >= Percent(100) THEN total.n - Percent(100)
                                 ELSE Percent(100) - total.n) >= 10

NumericError == "Enter numeric royalty shares for all parties."
TotalError == "Total royalty allocation must equal 100%. Currently"

RECURSIVE SumShares(_)
SumShares(parties) ==
  IF parties = <<>> THEN JsNumber(0)
  ELSE LET numeric == NumberOrZero(Head(parties).royaltyShare)
           rest == SumShares(Tail(parties))
       IN IF IsFinite(numeric) THEN JsAdd(numeric, rest) ELSE rest

computeShareMetrics(values) ==
  LET labelShare == NumberOrZero(values.labelShare)
      royaltyParties == values.royaltyParties
      invalid == \E i \in 1..Len(royaltyParties) :
                   ~IsFinite(NumberOrZero(royaltyParties[i].royaltyShare))
      artistTotal == SumShares(royaltyParties)
      total == ToFixed2(JsAdd(labelShare, artistTotal))
  IN IF invalid THEN [total |-> total, error |-> Some(NumericError)]
     ELSE IF OffByMoreThanTolerance(total)
          THEN [total |-> total, error |-> Some(TotalError)]
          ELSE [total |-> total, error |-> Null]

(***************************************************************************)
(* The three data shapes.  A form value holds labelShare, royaltyParties   *)
(* and the legacy artists list that the form store keeps when the loaded   *)
(* file had one.  A persisted agreement is a JSON object: keys says which  *)
(* of the fields the object has.                                           *)
(***************************************************************************)
Party(share) == [royaltyShare |-> share]

\* The values of releaseDate and releaseDateISO: null, a Dayjs object (a
\* calendar day with a time of day, or the invalid date), or a string.
NoDate == [t |-> "null", day |-> "", time |-> ""]
Dayjs(day, time) == [t |-> "dayjs", day |-> day, time |-> time]
DateString(text) == [t |-> "string", day |-> text, time |-> ""]
InvalidDayjs == Dayjs("Invalid Date", "")

\* the calendar days that dayjs parses
Days == {"2024-01-05", "2024-02-29"}

\* d.isValid()
isValid(d) == d.t = "dayjs" /\ d.day \in Days

\* d.format('YYYY-MM-DD')
formatIso(d) == d.day

\* dayjs(text): the start of the day that the text names
dayjs(text) == IF text \in Days THEN Dayjs(text, "00:00") ELSE InvalidDayjs

FormValue(label, parties) ==
  [labelShare |-> label, royaltyParties |-> parties, artists |-> <<>>,
   releaseDate |-> NoDate, releaseDateISO |-> NoDate]

Persisted(keys, label, parties, artists) ==
  [keys |-> keys, labelShare |-> label, royaltyParties |-> parties,
   artists |-> artists, releaseDate |-> NoDate, releaseDateISO |-> NoDate]

\* parseDate, lines 63-72
parseDate(value) ==
  IF value.t = "dayjs" THEN value
  ELSE IF value.t = "string" /\ value.day # ""
  THEN (IF isValid(dayjs(value.day)) THEN dayjs(value.day) ELSE NoDate)
  ELSE NoDate

\* a ?? b on date values
OrElse(a, b) == IF a = NoDate THEN b ELSE a

FALLBACK_FORM_VALUES == FormValue(JsNumber(Percent(60)), <<>>)

toFormValues(persisted, fallback) ==
  IF persisted = Null THEN fallback
  ELSE LET source == persisted[1]
           label == IF "labelShare" \in source.keys THEN source.labelShare
                    ELSE fallback.labelShare
           parties == IF "royaltyParties" \in source.keys
                      THEN source.royaltyParties
                      ELSE fallback.royaltyParties
           legacy == IF "artists" \in source.keys THEN source.artists ELSE <<>>
           releaseDate == IF "releaseDate" \in source.keys
                          THEN source.releaseDate ELSE NoDate
           sourceIso == IF "releaseDateISO" \in source.keys
                        THEN source.releaseDateISO ELSE NoDate
       IN [labelShare |-> label,
           royaltyParties |->
             IF Len(legacy) > 0 /\ Len(parties) = 0
             THEN [i \in 1..Len(legacy) |-> Party(legacy[i].royaltyShare)]
             ELSE parties,
           artists |-> IF "artists" \in source.keys THEN legacy
                       ELSE fallback.artists,
           releaseDate |->
             OrElse(parseDate(releaseDate), parseDate(fallback.releaseDate)),
           releaseDateISO |->
             IF sourceIso.t = "string" THEN sourceIso
             ELSE fallback.releaseDateISO]

\* variant that keeps the releaseDateISO of the form instead of deriving it
\* from releaseDate (sensitivity of RoundTripNormalisesDate)
toPersistedKeepsIso(values) ==
  [keys |-> {"labelShare", "royaltyParties", "releaseDate", "releaseDateISO"},
   labelShare |-> values.labelShare, royaltyParties |-> values.royaltyParties,
   artists |-> <<>>,
   releaseDate |-> IF values.releaseDate.t = "dayjs"
                   THEN DateString(formatIso(values.releaseDate))
                   ELSE values.releaseDateISO,
   releaseDateISO |-> values.releaseDateISO]

\* variant without the delete of the legacy list (sensitivity of
\* SavesCarryNoLegacyList)
toPersistedKeepsArtists(values) ==
  [toPersistedKeepsIso(values) EXCEPT
     !.keys = @ \cup {"artists"}, !.artists = values.artists,
     !.releaseDateISO = toPersistedKeepsIso(values).releaseDate]

toPersisted(values) ==
  LET releaseDateIso == IF values.releaseDate.t = "dayjs"
                        THEN DateString(formatIso(values.releaseDate))
                        ELSE values.releaseDateISO
  IN [keys |-> {"labelShare", "royaltyParties", "releaseDate",
                "releaseDateISO"},
      labelShare |-> values.labelShare,
      royaltyParties |-> values.royaltyParties,
      artists |-> <<>>,
      releaseDate |-> releaseDateIso,
      releaseDateISO |-> releaseDateIso]

\* dayjs(iso).format('MMMM D, YYYY')
formatLong(iso) ==
  CASE iso = "2024-01-05" -> "January 5, 2024"
    [] iso = "2024-02-29" -> "February 29, 2024"
    [] OTHER -> "Invalid Date"

\* variant that passes the date fields of the persisted shape on as they
\* are (sensitivity of PdfInputFormatsReleaseDate)
toPdfInputKeepsReleaseDate(values) ==
  LET persisted == toPersisted(values)
      iso == OrElse(persisted.releaseDate, persisted.releaseDateISO)
  IN [keys |-> persisted.keys \cup {"releaseDateFormatted"},
      labelShare |-> persisted.labelShare,
      royaltyParties |-> persisted.royaltyParties,
      artists |-> persisted.artists,
      releaseDate |-> persisted.releaseDate,
      releaseDateISO |-> persisted.releaseDateISO,
      releaseDateFormatted |->
        DateString(IF iso.t = "string" /\ iso.day # ""
                   THEN formatLong(iso.day) ELSE "")]

toPdfInput(values) ==
  LET persisted == toPersisted(values)
      iso == OrElse(persisted.releaseDate, persisted.releaseDateISO)
      formatted == DateString(IF iso.t = "string" /\ iso.day # ""
                              THEN formatLong(iso.day) ELSE "")
  IN [keys |-> persisted.keys \cup {"releaseDateFormatted"},
      labelShare |-> persisted.labelShare,
      royaltyParties |-> persisted.royaltyParties,
      artists |-> persisted.artists,
      releaseDate |-> formatted,
      releaseDateISO |-> iso,
      releaseDateFormatted |-> formatted]

cloneFormValues(values) ==
  [labelShare |-> values.labelShare,
   royaltyParties |-> [i \in 1..Len(values.royaltyParties) |->
                         values.royaltyParties[i]],
   artists |-> values.artists,
   releaseDate |-> IF values.releaseDate = NoDate THEN NoDate
                   ELSE values.releaseDate,
   releaseDateISO |-> values.releaseDateISO]

\* label share + royalty shares is within 0.01 of 100
SumsTo100(values) ==
  /\ values.labelShare.t \in {"number", "null"}
  /\ \A i \in 1..Len(values.royaltyParties) :
        values.royaltyParties[i].royaltyShare.t \in {"number", "null"}
  /\ LET sum == JsAdd(NumberOrZero(values.labelShare),
                      SumShares(values.royaltyParties)).n
     IN sum >= Percent(100) - 10 /\ sum <= Percent(100) + 10

(***************************************************************************)
(* The editing session.                                                    *)
(***************************************************************************)
MaxOpId == 5

\* generate-pdf calls that the model lets be in flight together
MaxCompiles == 2

Projects == {"A", "B"}

Valid6040 == FormValue(JsNumber(Percent(60)), <<Party(JsNumber(Percent(40)))>>)
Invalid6030 == FormValue(JsNumber(Percent(60)), <<Party(JsNumber(Percent(30)))>>)

\* the values a user can bring the form to: InputNumber yields numbers
EditValues == {Valid6040, Invalid6030}

AbsentFile == [state |-> "absent", data |-> toPersisted(FALLBACK_FORM_VALUES)]
CorruptFile == [state |-> "corrupt", data |-> toPersisted(FALLBACK_FORM_VALUES)]
JsonFile(persisted) == [state |-> "json", data |-> persisted]

\* agreement_data.json as a project directory can hold it when it is opened
InitialFiles ==
  { AbsentFile,
    CorruptFile,
    JsonFile(toPersisted(Valid6040)),
    JsonFile(Persisted({"labelShare"}, JsString, <<>>, <<>>)) }

VARIABLES
  activeProject,              \* App: activeProject.path
  pdf,                        \* App: the displayed preview
  form,                       \* the antd form store
  opIdRef, lastValidOpIdRef, validatedSnapshotRef, latestValuesRef,
  currentProjectPathRef, lastSuccessfulOpIdRef, lastSuccessfulSnapshotRef,
  validationTimerRef, previewTimerRef, saveTimerRef,
  timers,              \* the timeouts that are set and have neither fired nor been cleared
  shareTotal, shareError, previewStatus, previewError, isPreviewStale,
  isGenerating, isProjectLoading,
  loads,                      \* projects:load-agreement-data calls in flight
  compiles,                   \* generate-pdf calls in flight
  disk,                       \* agreement_data.json of every project
  lastSave,                   \* the last projects:save-agreement-data call
  opKind,                     \* history: what every operation id was stamped on
  maxDispatched               \* history: highest id of a dispatched compile or save

appVars == <<activeProject, pdf>>
refVars == <<opIdRef, lastValidOpIdRef, validatedSnapshotRef, latestValuesRef,
             currentProjectPathRef, lastSuccessfulOpIdRef,
             lastSuccessfulSnapshotRef>>
timerVars == <<validationTimerRef, previewTimerRef, saveTimerRef, timers>>
stateVars == <<shareTotal, shareError, previewStatus, previewError,
               isPreviewStale, isGenerating, isProjectLoading>>
ipcVars == <<loads, compiles, disk, lastSave>>
historyVars == <<opKind, maxDispatched>>
sessionVars == <<appVars, form, refVars, timerVars, stateVars, ipcVars,
                 historyVars>>

\* the state of the compile orchestrator, see SpecCompile below
VARIABLES
  templateExists,             \* master-agreement-template.tex is in place
  config,                     \* agreement-config.tex of the project directory
  files,                      \* the pdf files of the project directory
  jobs                        \* the generate-pdf invocations

compileVars == <<templateExists, config, files, jobs>>

\* the directories under and beside the projects root and the last project
\* operation handled by main.ts, see SpecProjects below
VARIABLES
  tree,                       \* every directory: absent, or its two files
  lastCall                    \* the operation handled last and its result

hubVars == <<tree, lastCall>>

\* the argument and the result of a function that is evaluated on its own
VARIABLES arg, result

evalVars == <<arg, result>>

\* The configuration service of main/config.ts
VARIABLES
  baseConfig,          \* the parsed base-config.json (cachedBaseConfig)
  userFile,            \* config.json in the user data directory
  cachedUserConfig,    \* null | AppConfigUpdate
  cachedMergedConfig,  \* null | AppConfig
  configReturn         \* what the last call on the service returned or threw

configVars ==
  <<baseConfig, userFile, cachedUserConfig, cachedMergedConfig, configReturn>>

besidesSession == <<compileVars, hubVars, evalVars, configVars>>
besidesCompile == <<sessionVars, hubVars, evalVars, configVars>>
besidesHub == <<sessionVars, compileVars, evalVars, configVars>>
besidesEval == <<sessionVars, compileVars, hubVars, configVars>>
besidesConfig == <<sessionVars, compileVars, hubVars, evalVars>>

\* config?.agreementDefaults as App hands it to the form, in the persisted
\* shape: the session runs without a config.json, so that config:get answers
\* the agreement defaults of the base configuration
defaultsFromConfig ==
  LET base == baseConfig.agreementDefaults
      shares(list) ==
        [i \in 1..Len(list) |-> Party(JsNumber(Percent(list[i].royaltyShare)))]
  IN Some(Persisted({"royaltyParties", "artists"}, JsNull,
                    shares(base.royaltyParties), shares(base.artists)))

\* const defaults = useMemo(...), lines 261-265
defaults == toFormValues(defaultsFromConfig, FALLBACK_FORM_VALUES)

\* a scheduled callback: its arguments and the project path its closure holds
Timer(snapshot, opId, path) ==
  [snapshot |-> snapshot, opId |-> opId, path |-> path]

\* main.ts projects:load-agreement-data, answered from the file as it is when
\* the call is handled
LoadCall(path) ==
  [path |-> path, cancelled |-> FALSE,
   success |-> disk[path].state # "corrupt",
   data |-> IF disk[path].state = "json" THEN Some(disk[path].data) ELSE Null]

CompileCall(snapshot, opId, mode, path) ==
  [path |-> path, opId |-> opId, mode |-> mode, snapshot |-> snapshot,
   pdfInput |-> toPdfInput(snapshot)]

SaveCall(snapshot, opId, path) ==
  [path |-> path, opId |-> opId, snapshot |-> snapshot,
   agreementData |-> toPersisted(snapshot)]

StampOp(opId, kind) == opKind' = [opKind EXCEPT ![opId] = kind]

KindOfChange(snapshot) ==
  IF computeShareMetrics(snapshot).error = Null THEN "valid change"
  ELSE "invalid change"

\* the session of a freshly mounted AgreementForm over the files on disk
SessionStart ==
  /\ activeProject = "A"
  /\ pdf = Null
  /\ form = defaults
  /\ opIdRef = 1
  /\ lastValidOpIdRef = Null
  /\ validatedSnapshotRef = Null
  /\ latestValuesRef = FALLBACK_FORM_VALUES
  /\ currentProjectPathRef = activeProject
  /\ lastSuccessfulOpIdRef = Null
  /\ lastSuccessfulSnapshotRef = Null
  /\ validationTimerRef = Null
  /\ previewTimerRef = Null
  /\ saveTimerRef = Null
  /\ timers = {}
  /\ shareTotal = JsNumber(0)
  /\ shareError = Null
  /\ previewStatus = "idle"
  /\ previewError = Null
  /\ isPreviewStale = FALSE
  /\ isGenerating = FALSE
  /\ isProjectLoading = TRUE
  /\ loads = {LoadCall(activeProject)}
  /\ compiles = {}
  /\ lastSave = Null
  /\ opKind = [i \in 1..MaxOpId |-> IF i = 1 THEN "other" ELSE "none"]
  /\ maxDispatched = 0

SessionInit ==
  /\ disk \in {d \in [Projects -> InitialFiles] : d["B"].state # "corrupt"}
  /\ SessionStart

(***************************************************************************)
(* Helpers of the handlers.  Each yields what the code computes from the   *)
(* state it runs in; the actions below assign the results.                 *)
(***************************************************************************)

\* variant without the gate of performValidation: every snapshot is taken as
\* validated (sensitivity of OnlyValidatedChangesInOrder)
validationRejectsNever(metrics) == FALSE

\* performValidation line 425: if (error) { ...; return; }
validationRejects(metrics) == metrics.error # Null

\* variant without the synchronous re-validation of the manual handlers
\* (sensitivity of ManualTriggersValidateThenDispatch)
manualTriggerRejectsNever(metrics) == FALSE

\* the manual handlers after computeShareMetrics: if (error) { ...; return; }
manualTriggerRejects(metrics) == metrics.error # Null

\* variant that leaves the timeout of the handle running (sensitivity of
\* OneTimerOfEachKind)
clearTimerNot(table, kind, ref) == table

\* clearTimer(ref) on the table of running timeouts
clearTimer(table, kind, ref) ==
  IF ref = Null THEN table ELSE table \ {[kind |-> kind, timer |-> ref[1]]}

\* ref.current = setTimeout(execute, delay)
setTimeout(table, kind, timer) == table \cup {[kind |-> kind, timer |-> timer]}

\* a timeout that fires is no longer running
Fired(table, kind, timer) == table \ {[kind |-> kind, timer |-> timer]}

\* performValidation(snapshot, opId) with opIdRef.current = current; path is
\* the project path held by the closures of queuePreview and queueSave;
\* table holds the timeouts that run when it is called.
performValidation(snapshot, opId, path, current, table) ==
  LET metrics == computeShareMetrics(snapshot)
      cleared == clearTimer(clearTimer(table, "preview", previewTimerRef),
                            "save", saveTimerRef)
      queued == setTimeout(
                  clearTimer(
                    setTimeout(clearTimer(table, "preview", previewTimerRef),
                               "preview", Timer(snapshot, opId, path)),
                    "save", saveTimerRef),
                  "save", Timer(snapshot, opId, path))
  IN IF opId # current
     THEN [ran |-> FALSE, timers |-> table, latestValues |-> latestValuesRef,
           shareTotal |-> shareTotal, shareError |-> shareError,
           lastValidOpId |-> lastValidOpIdRef,
           validatedSnapshot |-> validatedSnapshotRef,
           previewTimer |-> previewTimerRef, saveTimer |-> saveTimerRef,
           isPreviewStale |-> isPreviewStale]
     ELSE IF validationRejects(metrics)
     THEN [ran |-> TRUE, timers |-> cleared, latestValues |-> snapshot,
           shareTotal |-> metrics.total, shareError |-> metrics.error,
           lastValidOpId |-> Null, validatedSnapshot |-> Null,
           previewTimer |-> Null, saveTimer |-> Null,
           isPreviewStale |-> isPreviewStale]
     ELSE [ran |-> TRUE, timers |-> queued, latestValues |-> snapshot,
           shareTotal |-> metrics.total, shareError |-> metrics.error,
           lastValidOpId |-> Some(opId), validatedSnapshot |-> Some(snapshot),
           previewTimer |-> Some(Timer(snapshot, opId, path)),
           saveTimer |-> Some(Timer(snapshot, opId, path)),
           isPreviewStale |-> TRUE]

\* variant that only checks the last validated id, not the current one
\* (sensitivity of ScheduledEffectsRecheck)
EffectMayRunUnchecked(opId, path, current, lastValid) ==
  /\ lastValid = Some(opId)
  /\ currentProjectPathRef = path

\* the guards of a scheduled or immediate effect: its id is the current and
\* the last validated one, and the project of its closure is still active
EffectMayRun(opId, path, current, lastValid) ==
  /\ opId = current
  /\ lastValid = Some(opId)
  /\ currentProjectPathRef = path

\* runPdfGeneration up to its await
runPdfGeneration(snapshot, opId, mode, path, current, lastValid) ==
  IF EffectMayRun(opId, path, current, lastValid)
  THEN /\ previewStatus' = "generating"
       /\ previewError' = Null
       /\ isGenerating' = TRUE
       /\ compiles' = compiles \cup {CompileCall(snapshot, opId, mode, path)}
  ELSE UNCHANGED <<previewStatus, previewError, isGenerating, compiles>>

\* runAutoSave up to its await; main.ts writes the file when it handles the call
runAutoSave(snapshot, opId, path, current, lastValid) ==
  IF EffectMayRun(opId, path, current, lastValid)
  THEN /\ lastSave' = Some(SaveCall(snapshot, opId, path))
       /\ disk' = [disk EXCEPT ![path] = JsonFile(toPersisted(snapshot))]
  ELSE UNCHANGED <<lastSave, disk>>

\* history of the dispatches: the highest operation id sent so far
Dispatches(opId, path, current, lastValid) ==
  IF EffectMayRun(opId, path, current, lastValid) /\ opId > maxDispatched
  THEN opId ELSE maxDispatched

\* variant without the check after the await (sensitivity of
\* StaleResultLeavesPreview)
StaleAfterAwaitNever(opId) == FALSE

\* runPdfGeneration line 358: the result belongs to a superseded operation
StaleAfterAwait(opId) == opId # opIdRef

(***************************************************************************)
(* Actions of the session: one per handler, effect or callback.            *)
(***************************************************************************)

\* variant in which the cleanup leaves the load uncancelled (sensitivity of
\* SwitchResetsSequencer)
CancelNot(l) == l

\* the cleanup of the load effect, line 537: cancelled = true
Cancel(l) == [l EXCEPT !.cancelled = TRUE]

\* App.handleProjectSelect for another project, then the effects of the new
\* render: the cleanup of the load effect, currentProjectPathRef, and
\* loadProjectData up to its await.
SelectProject(p) ==
  /\ p # activeProject
  /\ opIdRef + 2 <= MaxOpId
  /\ activeProject' = p
  /\ pdf' = Null
  /\ loads' = {Cancel(l) : l \in loads} \cup {LoadCall(p)}
  /\ validationTimerRef' = Null
  /\ previewTimerRef' = Null
  /\ saveTimerRef' = Null
  /\ timers' = clearTimer(clearTimer(clearTimer(timers, "validation",
                                                validationTimerRef),
                                     "preview", previewTimerRef),
                          "save", saveTimerRef)
  /\ opIdRef' = opIdRef + 2
  /\ opKind' = [opKind EXCEPT ![opIdRef + 1] = "other",
                              ![opIdRef + 2] = "other"]
  /\ currentProjectPathRef' = p
  /\ lastValidOpIdRef' = Null
  /\ validatedSnapshotRef' = Null
  /\ previewStatus' = "idle"
  /\ previewError' = Null
  /\ isPreviewStale' = FALSE
  /\ isProjectLoading' = TRUE
  /\ UNCHANGED <<form, latestValuesRef, lastSuccessfulOpIdRef,
                 lastSuccessfulSnapshotRef, shareTotal, shareError,
                 isGenerating, compiles, disk, lastSave, maxDispatched>>
  /\ UNCHANGED besidesSession

\* App.handleProjectSelect for the project that is already open
ReselectProject ==
  /\ pdf # Null
  /\ pdf' = Null
  /\ UNCHANGED <<activeProject, form, refVars, timerVars, stateVars, ipcVars,
                 historyVars>>
  /\ UNCHANGED besidesSession

\* the load of a superseded effect returns: cancelled, nothing is applied
CancelledLoadReturn(l) ==
  /\ l \in loads
  /\ l.cancelled
  /\ loads' = loads \ {l}
  /\ UNCHANGED <<appVars, form, refVars, timerVars, stateVars, compiles, disk,
                 lastSave, historyVars>>
  /\ UNCHANGED besidesSession

\* loadProjectData after its await, with hydrateForm and the immediate
\* validation pass
LoadReturn(l) ==
  /\ l \in loads
  /\ ~l.cancelled
  /\ opIdRef < MaxOpId
  /\ LET hydrated == toFormValues(IF l.success THEN l.data ELSE Null, defaults)
         nextOpId == opIdRef + 1
         v == performValidation(hydrated, nextOpId, activeProject, nextOpId,
                                clearTimer(timers, "validation",
                                           validationTimerRef))
     IN /\ form' = hydrated
        /\ opIdRef' = nextOpId
        /\ StampOp(nextOpId, "other")
        /\ validationTimerRef' = Null
        /\ latestValuesRef' = v.latestValues
        /\ shareTotal' = v.shareTotal
        /\ shareError' = v.shareError
        /\ lastValidOpIdRef' = v.lastValidOpId
        /\ validatedSnapshotRef' = v.validatedSnapshot
        /\ previewTimerRef' = v.previewTimer
        /\ saveTimerRef' = v.saveTimer
        /\ timers' = v.timers
        /\ isPreviewStale' = FALSE
        /\ isProjectLoading' = FALSE
  /\ loads' = loads \ {l}
  /\ UNCHANGED <<appVars, currentProjectPathRef, lastSuccessfulOpIdRef,
                 lastSuccessfulSnapshotRef, previewStatus, previewError,
                 isGenerating, compiles, disk, lastSave, maxDispatched>>
  /\ UNCHANGED besidesSession

\* variant that reuses the current operation id (sensitivity of
\* OperationIdsAdvance)
SameOpId(current) == current

\* const nextOpId = opIdRef.current + 1
NextOpId(current) == current + 1

\* handleValuesChange: the user changes a field of the enabled form
ValuesChange(v) ==
  /\ ~isProjectLoading
  /\ opIdRef < MaxOpId
  /\ LET allValues == [v EXCEPT !.artists = form.artists]
         snapshot == cloneFormValues(allValues)
         nextOpId == NextOpId(opIdRef)
     IN /\ allValues # form
        /\ form' = allValues
        /\ latestValuesRef' = snapshot
        /\ opIdRef' = nextOpId
        /\ StampOp(nextOpId, KindOfChange(snapshot))
        /\ validationTimerRef' = Some(Timer(snapshot, nextOpId, activeProject))
        /\ timers' = setTimeout(clearTimer(timers, "validation",
                                           validationTimerRef),
                                "validation",
                                Timer(snapshot, nextOpId, activeProject))
  /\ UNCHANGED <<appVars, lastValidOpIdRef, validatedSnapshotRef,
                 currentProjectPathRef, lastSuccessfulOpIdRef,
                 lastSuccessfulSnapshotRef, previewTimerRef, saveTimerRef,
                 stateVars, ipcVars, maxDispatched>>
  /\ UNCHANGED besidesSession

\* a handle of a timeout that has fired is to clearTimer as good as null
AfterFiring(ref, timer) == IF ref = Some(timer) THEN Null ELSE ref

\* a validation timeout fires: performValidation
ValidationTimerFire ==
  \E fired \in timers :
  /\ fired.kind = "validation"
  /\ LET t == fired.timer
         v == performValidation(t.snapshot, t.opId, t.path, opIdRef,
                                Fired(timers, "validation", t))
     IN /\ validationTimerRef' = AfterFiring(validationTimerRef, t)
        /\ latestValuesRef' = v.latestValues
        /\ shareTotal' = v.shareTotal
        /\ shareError' = v.shareError
        /\ lastValidOpIdRef' = v.lastValidOpId
        /\ validatedSnapshotRef' = v.validatedSnapshot
        /\ previewTimerRef' = v.previewTimer
        /\ saveTimerRef' = v.saveTimer
        /\ timers' = v.timers
        /\ isPreviewStale' = v.isPreviewStale
  /\ UNCHANGED <<appVars, form, opIdRef, currentProjectPathRef,
                 lastSuccessfulOpIdRef, lastSuccessfulSnapshotRef,
                 previewStatus, previewError, isGenerating, isProjectLoading,
                 ipcVars, historyVars>>
  /\ UNCHANGED besidesSession

\* a preview timeout fires: runPdfGeneration(snapshot, opId, 'preview')
PreviewTimerFire ==
  \E fired \in timers :
  /\ fired.kind = "preview"
  /\ Cardinality(compiles) < MaxCompiles
  /\ LET t == fired.timer
     IN /\ previewTimerRef' = AfterFiring(previewTimerRef, t)
        /\ timers' = Fired(timers, "preview", t)
        /\ runPdfGeneration(t.snapshot, t.opId, "preview", t.path, opIdRef,
                            lastValidOpIdRef)
        /\ maxDispatched' =
             Dispatches(t.opId, t.path, opIdRef, lastValidOpIdRef)
  /\ UNCHANGED <<appVars, form, refVars, validationTimerRef, saveTimerRef,
                 shareTotal, shareError, isPreviewStale, isProjectLoading,
                 loads, disk, lastSave, opKind>>
  /\ UNCHANGED besidesSession

\* a save timeout fires: runAutoSave(snapshot, opId)
SaveTimerFire ==
  \E fired \in timers :
  /\ fired.kind = "save"
  /\ LET t == fired.timer
     IN /\ saveTimerRef' = AfterFiring(saveTimerRef, t)
        /\ timers' = Fired(timers, "save", t)
        /\ runAutoSave(t.snapshot, t.opId, t.path, opIdRef, lastValidOpIdRef)
        /\ maxDispatched' =
             Dispatches(t.opId, t.path, opIdRef, lastValidOpIdRef)
  /\ UNCHANGED <<appVars, form, refVars, validationTimerRef, previewTimerRef,
                 stateVars, loads, compiles, opKind>>
  /\ UNCHANGED besidesSession

\* App.onPdfGenerated: setPdf({ path, refreshToken: Date.now() }); the token
\* differs from the one shown before
PdfShown(c) ==
  Some([path |-> c.path, mode |-> c.mode, opId |-> c.opId,
        refreshToken |-> IF pdf = Null THEN 0 ELSE 1 - pdf[1].refreshToken])

\* runPdfGeneration after its await: generate-pdf answers with success or not
CompileReturn(c, success) ==
  /\ c \in compiles
  /\ compiles' = compiles \ {c}
  /\ IF StaleAfterAwait(c.opId)
     THEN UNCHANGED <<pdf, lastSuccessfulOpIdRef, lastSuccessfulSnapshotRef,
                      previewStatus, previewError, isPreviewStale, isGenerating>>
     ELSE IF success
     THEN /\ pdf' = PdfShown(c)
          /\ lastSuccessfulOpIdRef' = Some(c.opId)
          /\ lastSuccessfulSnapshotRef' = Some(c.snapshot)
          /\ previewStatus' = "success"
          /\ isPreviewStale' = FALSE
          /\ isGenerating' = IF c.opId = opIdRef THEN FALSE ELSE isGenerating
          /\ UNCHANGED previewError
     ELSE /\ IF c.opId = opIdRef
             THEN /\ previewStatus' = "error"
                  /\ previewError' = Some("PDF generation failed.")
             ELSE UNCHANGED <<previewStatus, previewError>>
          /\ isGenerating' = IF c.opId = opIdRef THEN FALSE ELSE isGenerating
          /\ UNCHANGED <<pdf, lastSuccessfulOpIdRef, lastSuccessfulSnapshotRef,
                         isPreviewStale>>
  /\ UNCHANGED <<activeProject, form, opIdRef, lastValidOpIdRef,
                 validatedSnapshotRef, latestValuesRef, currentProjectPathRef,
                 timerVars, shareTotal, shareError, isProjectLoading, loads,
                 disk, lastSave, historyVars>>
  /\ UNCHANGED besidesSession

\* handleManualSave, the listener of menu:save-agreement
ManualSave ==
  /\ LET snapshot == cloneFormValues(form)
         metrics == computeShareMetrics(snapshot)
         savedOpId == opIdRef + 1
     IN IF activeProject # currentProjectPathRef
        THEN UNCHANGED sessionVars
        ELSE /\ ~manualTriggerRejects(metrics) => opIdRef < MaxOpId
             /\ shareTotal' = metrics.total
             /\ shareError' = metrics.error
             /\ IF manualTriggerRejects(metrics)
                THEN UNCHANGED <<opIdRef, lastValidOpIdRef, validatedSnapshotRef,
                                 saveTimerRef, timers, lastSave, disk, opKind,
                                 maxDispatched>>
                ELSE /\ opIdRef' = savedOpId
                     /\ lastValidOpIdRef' = Some(savedOpId)
                     /\ validatedSnapshotRef' = Some(snapshot)
                     /\ StampOp(savedOpId, "other")
                     /\ saveTimerRef' = Null
                     /\ timers' = clearTimer(timers, "save", saveTimerRef)
                     /\ runAutoSave(snapshot, savedOpId, activeProject, savedOpId,
                                    Some(savedOpId))
                     /\ maxDispatched' =
                          Dispatches(savedOpId, activeProject, savedOpId, Some(savedOpId))
             /\ UNCHANGED <<appVars, form, latestValuesRef, currentProjectPathRef,
                            lastSuccessfulOpIdRef, lastSuccessfulSnapshotRef,
                            validationTimerRef, previewTimerRef, previewStatus,
                            previewError, isPreviewStale, isGenerating,
                            isProjectLoading, loads, compiles>>
  /\ UNCHANGED besidesSession

\* handleManualGenerate, the click on an enabled 'Generate Preview' button
ManualGenerate ==
  /\ shareError = Null
  /\ ~isProjectLoading
  /\ ~(isGenerating /\ previewStatus = "generating")
  /\ Cardinality(compiles) < MaxCompiles
  /\ LET snapshot == cloneFormValues(form)
         metrics == computeShareMetrics(snapshot)
         nextOpId == opIdRef + 1
     IN /\ ~manualTriggerRejects(metrics) => opIdRef < MaxOpId
        /\ shareTotal' = metrics.total
        /\ shareError' = metrics.error
        /\ IF manualTriggerRejects(metrics)
           THEN UNCHANGED <<opIdRef, lastValidOpIdRef, validatedSnapshotRef,
                            previewTimerRef, saveTimerRef, timers, previewStatus,
                            previewError, isGenerating, compiles, opKind,
                            maxDispatched>>
           ELSE /\ opIdRef' = nextOpId
                /\ lastValidOpIdRef' = Some(nextOpId)
                /\ validatedSnapshotRef' = Some(snapshot)
                /\ StampOp(nextOpId, "other")
                /\ previewTimerRef' = Null
                /\ runPdfGeneration(snapshot, nextOpId, "preview",
                                    activeProject, nextOpId, Some(nextOpId))
                /\ saveTimerRef' = Some(Timer(snapshot, nextOpId, activeProject))
                /\ timers' =
                     setTimeout(
                       clearTimer(clearTimer(timers, "preview", previewTimerRef),
                                  "save", saveTimerRef),
                       "save", Timer(snapshot, nextOpId, activeProject))
                /\ maxDispatched' =
                     Dispatches(nextOpId, activeProject, nextOpId, Some(nextOpId))
  /\ UNCHANGED <<appVars, form, latestValuesRef, currentProjectPathRef,
                 lastSuccessfulOpIdRef, lastSuccessfulSnapshotRef,
                 validationTimerRef, isPreviewStale, isProjectLoading, loads,
                 disk, lastSave>>
  /\ UNCHANGED besidesSession

\* handleFinalGenerate, the click on an enabled 'Generate Final Agreement'
FinalGenerate ==
  /\ shareError = Null
  /\ ~isGenerating
  /\ ~isProjectLoading
  /\ Cardinality(compiles) < MaxCompiles
  /\ LET snapshot == cloneFormValues(form)
         metrics == computeShareMetrics(snapshot)
         nextOpId == opIdRef + 1
     IN /\ ~manualTriggerRejects(metrics) => opIdRef < MaxOpId
        /\ shareTotal' = metrics.total
        /\ shareError' = metrics.error
        /\ IF manualTriggerRejects(metrics)
           THEN UNCHANGED <<opIdRef, lastValidOpIdRef, validatedSnapshotRef,
                            saveTimerRef, timers, previewStatus, previewError,
                            isGenerating, compiles, lastSave, disk, opKind,
                            maxDispatched>>
           ELSE /\ opIdRef' = nextOpId
                /\ lastValidOpIdRef' = Some(nextOpId)
                /\ validatedSnapshotRef' = Some(snapshot)
                /\ StampOp(nextOpId, "other")
                /\ saveTimerRef' = Null
                /\ timers' = clearTimer(timers, "save", saveTimerRef)
                /\ runAutoSave(snapshot, nextOpId, activeProject, nextOpId,
                               Some(nextOpId))
                /\ runPdfGeneration(snapshot, nextOpId, "final", activeProject,
                                    nextOpId, Some(nextOpId))
                /\ maxDispatched' =
                     Dispatches(nextOpId, activeProject, nextOpId, Some(nextOpId))
  /\ UNCHANGED <<appVars, form, latestValuesRef, currentProjectPathRef,
                 lastSuccessfulOpIdRef, lastSuccessfulSnapshotRef,
                 validationTimerRef, previewTimerRef, isPreviewStale,
                 isProjectLoading, loads>>
  /\ UNCHANGED besidesSession

\* handleRetryPreview, the click on 'Retry' or 'Refresh Preview'
RetryPreview ==
  /\ \/ previewStatus = "error" /\ previewError # Null
     \/ previewStatus = "success" /\ isPreviewStale
  /\ ~isGenerating
  /\ Cardinality(compiles) < MaxCompiles
  /\ LET snapshot == IF validatedSnapshotRef # Null THEN validatedSnapshotRef
                     ELSE lastSuccessfulSnapshotRef
         opId == IF lastValidOpIdRef # Null THEN lastValidOpIdRef
                 ELSE lastSuccessfulOpIdRef
     IN IF snapshot = Null \/ opId = Null
        THEN UNCHANGED <<previewTimerRef, timers, previewStatus, previewError,
                         isGenerating, compiles, maxDispatched>>
        ELSE /\ previewTimerRef' = Null
             /\ timers' = clearTimer(timers, "preview", previewTimerRef)
             /\ runPdfGeneration(snapshot[1], opId[1], "preview", activeProject,
                                 opIdRef, lastValidOpIdRef)
             /\ maxDispatched' =
                  Dispatches(opId[1], activeProject, opIdRef, lastValidOpIdRef)
  /\ UNCHANGED <<appVars, form, refVars, validationTimerRef, saveTimerRef,
                 shareTotal, shareError, isPreviewStale, isProjectLoading,
                 loads, disk, lastSave, opKind>>
  /\ UNCHANGED besidesSession

Next ==
  \/ \E p \in Projects : SelectProject(p)
  \/ ReselectProject
  \/ \E l \in loads : CancelledLoadReturn(l)
  \/ \E l \in loads : LoadReturn(l)
  \/ \E v \in EditValues : ValuesChange(v)
  \/ ValidationTimerFire
  \/ PreviewTimerFire
  \/ SaveTimerFire
  \/ \E c \in compiles, success \in BOOLEAN : CompileReturn(c, success)
  \/ ManualSave
  \/ ManualGenerate
  \/ FinalGenerate
  \/ RetryPreview

(***************************************************************************)
(* The compile orchestrator: the generate-pdf handler of main.ts and        *)
(* compilePdf of generator.ts, for the invocations on one project           *)
(* directory.  A file of the directory holds the release title of the       *)
(* agreement-config.tex it was compiled from.                               *)
(***************************************************************************)
MaxJobs == 2

Modes == {"preview", "final"}

\* the agreements sent for compilation differ in their release title
Titles == {"Alpha", "Beta"}

ExitCodes == {0, 1, 12}

\* compilePdf line 200: the file that latexmk writes, whatever was asked for
pdfFileName == "master-agreement-template.pdf"

\* main.ts compactToken of a one-word title, and buildPdfBaseName for an
\* agreement without main artists and release date
buildPdfBaseName(title) == title \o "_UnknownArtist_DateUnknown"

\* generate-pdf lines 238-241 with compilePdf lines 202-205
desiredPdfPath(mode, title) ==
  IF mode = "final" THEN buildPdfBaseName(title) \o ".pdf" ELSE pdfFileName

FileNames == {pdfFileName} \cup {desiredPdfPath("final", t) : t \in Titles}

IdleJob ==
  [state |-> "idle", mode |-> "preview", title |-> "Alpha", wrote |-> FALSE,
   code |-> 0, existed |-> FALSE, renameThrew |-> FALSE, success |-> FALSE,
   pdfPath |-> "", delivered |-> Null]

CompileInit ==
  /\ templateExists \in BOOLEAN
  /\ config = Null
  /\ files \in {[f \in FileNames |-> IF f = pdfFileName THEN g ELSE Null] :
                  g \in {Null, Some("Old")}}
  /\ jobs = [j \in 1..MaxJobs |-> IdleJob]

\* variant that takes only exit code 0 as a finished compile (sensitivity of
\* SuccessIffExitFileAndRename)
reachesFinishSuccessStrict(code, exists) == code = 0

\* the exec callback, lines 271-302: finishSuccess is called when latexmk
\* reports no error, or exit code 12 with the generated file in place
reachesFinishSuccess(code, exists) == code = 0 \/ (code = 12 /\ exists)

\* the exec callback with finishSuccess, lines 225-256 and 271-302: what the
\* promise settles to and what becomes of the files
execCallback(code, desired, renameThrows) ==
  LET exists == files[pdfFileName] # Null
  IN IF ~reachesFinishSuccess(code, exists) \/ ~exists
     THEN [success |-> FALSE, pdfPath |-> "", files |-> files]
     ELSE IF pdfFileName = desired
     THEN [success |-> TRUE, pdfPath |-> pdfFileName, files |-> files]
     ELSE IF renameThrows
     THEN [success |-> FALSE, pdfPath |-> "",
           files |-> [files EXCEPT ![desired] = Null]]
     ELSE [success |-> TRUE, pdfPath |-> desired,
           files |-> [files EXCEPT ![desired] = files[pdfFileName],
                                   ![pdfFileName] = Null]]

\* generate-pdf is invoked: generateConfig writes agreement-config.tex, then
\* compilePdf checks the template and starts latexmk
StartJob(j, mode, title) ==
  /\ jobs[j].state = "idle"
  /\ j > 1 => jobs[j - 1].state # "idle"
  /\ config' = Some(title)
  /\ jobs' = [jobs EXCEPT ![j] =
       [@ EXCEPT !.state = IF templateExists THEN "running" ELSE "done",
                 !.mode = mode, !.title = title]]
  /\ UNCHANGED <<templateExists, files>>
  /\ UNCHANGED besidesCompile

\* the latexmk of job j compiles the agreement-config.tex it finds and writes
\* the generated pdf
CompilerWrites(j) ==
  /\ jobs[j].state = "running"
  /\ ~jobs[j].wrote
  /\ files' = [files EXCEPT ![pdfFileName] = config]
  /\ jobs' = [jobs EXCEPT ![j].wrote = TRUE]
  /\ UNCHANGED <<templateExists, config>>
  /\ UNCHANGED besidesCompile

\* the latexmk of job j exits and the exec callback settles the promise
CompilerExits(j, code, renameThrows) ==
  /\ jobs[j].state = "running"
  /\ LET desired == desiredPdfPath(jobs[j].mode, jobs[j].title)
         outcome == execCallback(code, desired, renameThrows)
     IN /\ files' = outcome.files
        /\ jobs' = [jobs EXCEPT ![j] =
             [@ EXCEPT !.state = "done", !.code = code,
                       !.existed = files[pdfFileName] # Null,
                       !.renameThrew = renameThrows,
                       !.success = outcome.success,
                       !.pdfPath = outcome.pdfPath,
                       !.delivered = IF outcome.success
                                     THEN outcome.files[outcome.pdfPath]
                                     ELSE Null]]
  /\ UNCHANGED <<templateExists, config>>
  /\ UNCHANGED besidesCompile

NextCompile ==
  \/ \E j \in 1..MaxJobs, mode \in Modes, title \in Titles :
       StartJob(j, mode, title)
  \/ \E j \in 1..MaxJobs : CompilerWrites(j)
  \/ \E j \in 1..MaxJobs, code \in ExitCodes, renameThrows \in BOOLEAN :
       CompilerExits(j, code, renameThrows)

\* the part that a specification leaves alone stays as it starts
SessionParked == SessionInit /\ disk = [p \in Projects |-> AbsentFile]

CompileParked ==
  /\ CompileInit
  /\ templateExists
  /\ files = [f \in FileNames |-> Null]

(***************************************************************************)
(* The project operations of main.ts on the file system.  A path is the    *)
(* sequence of its segments from the file system root; ".." is a segment   *)
(* like any other until path.resolve removes it.                           *)
(***************************************************************************)

\* getProjectsRoot: <documents>/Engeloop_Contracts
ProjectsRoot == <<"Documents", "Engeloop_Contracts">>

\* path.resolve of an absolute path: ".." drops the segment before it
RECURSIVE resolveOnto(_, _)
resolveOnto(done, rest) ==
  IF rest = <<>> THEN done
  ELSE IF Head(rest) = ".."
  THEN resolveOnto(IF done = <<>> THEN done
                   ELSE SubSeq(done, 1, Len(done) - 1), Tail(rest))
  ELSE resolveOnto(Append(done, Head(rest)), Tail(rest))

resolve(path) == resolveOnto(<<>>, path)

\* the length of the longest common prefix of two resolved paths
RECURSIVE commonPrefix(_, _)
commonPrefix(a, b) ==
  IF a = <<>> \/ b = <<>> \/ Head(a) # Head(b) THEN 0
  ELSE 1 + commonPrefix(Tail(a), Tail(b))

\* path.relative(from, to) of two resolved paths
relative(from, to) ==
  LET k == commonPrefix(from, to)
  IN [i \in 1..(Len(from) - k) |-> ".."] \o SubSeq(to, k + 1, Len(to))

\* main.ts isWithinDirectory; a relative path of one file system is never
\* absolute, and no directory name of the model begins with two dots
isWithinDirectory(parent, candidate) ==
  LET normalizedParent == resolve(parent)
      normalizedCandidate == resolve(candidate)
      rel == relative(normalizedParent, normalizedCandidate)
  IN IF normalizedParent = normalizedCandidate THEN FALSE
     ELSE Len(rel) > 0 /\ Head(rel) # ".."

\* the project paths that a caller of the exposed operations can pass
RequestPaths ==
  { ProjectsRoot \o <<"Song_A">>,
    ProjectsRoot,
    ProjectsRoot \o <<"..", "Private">>,
    ProjectsRoot \o <<"Song_A", "..", "..", "Missing">> }

\* the project names that a caller can pass
RequestNames == {"Song B", "???"}

\* main.ts sanitizeFilename on the names above: white space becomes an
\* underscore, characters that are no letter, digit, _ . or - are dropped
sanitizeFilename(name) ==
  CASE name = "Song B" -> "Song_B"
    [] name = "???" -> ""

\* the agreement that a caller sends; the files that exist at the start hold
\* another one
Contents == {"two"}

Directory(data, texConfig) == [data |-> data, config |-> texConfig]

Directories ==
  {resolve(p) : p \in RequestPaths} \cup {ProjectsRoot \o <<"Song_B">>}

HubInit ==
  /\ tree = [d \in Directories |->
       CASE d = ProjectsRoot -> Some(Directory(Null, Null))
         [] d = ProjectsRoot \o <<"Song_A">> ->
              Some(Directory(Some("one"), Null))
         [] d = <<"Documents", "Private">> ->
              Some(Directory(Some("one"), Null))
         [] OTHER -> Null]
  /\ lastCall = Null

HubParked == HubInit

Answer(op, path, success) ==
  Some([op |-> op, path |-> path, success |-> success])

existsSync(path) == tree[resolve(path)] # Null

\* ipcMain.handle('projects:rename')
RenameProject(currentPath, newName) ==
  LET sanitizedNewName == sanitizeFilename(newName)
      newPath == ProjectsRoot \o <<sanitizedNewName>>
      rejected == \/ sanitizedNewName = ""
                  \/ ~isWithinDirectory(ProjectsRoot, newPath)
                  \/ ~isWithinDirectory(ProjectsRoot, currentPath)
                  \/ ~existsSync(currentPath)
                  \/ existsSync(newPath)
  IN /\ lastCall' = Answer("rename", currentPath, ~rejected)
     /\ tree' = IF rejected THEN tree
                ELSE [tree EXCEPT ![resolve(newPath)] = tree[resolve(currentPath)],
                                  ![resolve(currentPath)] = Null]
     /\ UNCHANGED besidesHub

\* ipcMain.handle('projects:duplicate')
DuplicateProject(sourcePath, newName) ==
  LET sanitizedNewName == sanitizeFilename(newName)
      targetPath == ProjectsRoot \o <<sanitizedNewName>>
      rejected == \/ ~isWithinDirectory(ProjectsRoot, sourcePath)
                  \/ ~existsSync(sourcePath)
                  \/ sanitizedNewName = ""
                  \/ ~isWithinDirectory(ProjectsRoot, targetPath)
                  \/ existsSync(targetPath)
  IN /\ lastCall' = Answer("duplicate", sourcePath, ~rejected)
     /\ tree' = IF rejected THEN tree
                ELSE [tree EXCEPT ![resolve(targetPath)] =
                                     tree[resolve(sourcePath)]]
     /\ UNCHANGED besidesHub

\* ipcMain.handle('projects:delete')
DeleteProject(projectPath) ==
  LET rejected == \/ ~isWithinDirectory(ProjectsRoot, projectPath)
                  \/ ~existsSync(projectPath)
  IN /\ lastCall' = Answer("delete", projectPath, ~rejected)
     /\ tree' = IF rejected THEN tree
                ELSE [tree EXCEPT ![resolve(projectPath)] = Null]
     /\ UNCHANGED besidesHub

\* ipcMain.handle('projects:reveal')
RevealProject(projectPath) ==
  LET rejected == \/ ~isWithinDirectory(ProjectsRoot, projectPath)
                  \/ ~existsSync(projectPath)
  IN /\ lastCall' = Answer("reveal", projectPath, ~rejected)
     /\ UNCHANGED tree
     /\ UNCHANGED besidesHub

\* ipcMain.handle('projects:save-agreement-data'): writeFileSync throws when
\* the directory is missing
SaveAgreementData(projectPath, agreementData) ==
  LET dir == resolve(projectPath)
  IN /\ lastCall' = Answer("save", projectPath, existsSync(projectPath))
     /\ tree' = IF existsSync(projectPath)
                THEN [tree EXCEPT ![dir] =
                        Some([tree[dir][1] EXCEPT !.data = Some(agreementData)])]
                ELSE tree
     /\ UNCHANGED besidesHub

\* ipcMain.handle('projects:load-agreement-data'): a missing file or
\* directory answers { success: true, data: null }
LoadAgreementData(projectPath) ==
  /\ lastCall' = Answer("load", projectPath, TRUE)
  /\ UNCHANGED tree
  /\ UNCHANGED besidesHub

\* ipcMain.handle('generate-pdf') lines 223-235: the directory is created
\* when it is missing and generateConfig writes agreement-config.tex into
\* it; compiled says whether compilePdf resolved
GeneratePdf(projectPath, agreementData, compiled) ==
  LET dir == resolve(projectPath)
      before == IF existsSync(projectPath) THEN tree[dir][1]
                ELSE Directory(Null, Null)
  IN /\ lastCall' = Answer("generate", projectPath, compiled)
     /\ tree' = [tree EXCEPT ![dir] =
                  Some([before EXCEPT !.config = Some(agreementData)])]
     /\ UNCHANGED besidesHub

NextProjects ==
  \/ \E path \in RequestPaths, name \in RequestNames :
       RenameProject(path, name)
  \/ \E path \in RequestPaths, name \in RequestNames :
       DuplicateProject(path, name)
  \/ \E path \in RequestPaths : DeleteProject(path)
  \/ \E path \in RequestPaths : RevealProject(path)
  \/ \E path \in RequestPaths, data \in Contents :
       SaveAgreementData(path, data)
  \/ \E path \in RequestPaths : LoadAgreementData(path)
  \/ \E path \in RequestPaths, data \in Contents, compiled \in BOOLEAN :
       GeneratePdf(path, data, compiled)

(***************************************************************************)
(* The configuration service: config.ts with the config:get and            *)
(* config:update handlers of main.ts and getContractTemplatesPath of       *)
(* util.ts.  An AgreementDefaults object holds labelName (standing for the *)
(* scalar fields), the legacy artists list and the four party lists; a     *)
(* legacy artist holds stageName, role and royaltyShare.  An override's    *)
(* agreementDefaults is the set of keys it has with a value for each.      *)
(***************************************************************************)

Fields ==
  {"labelName", "artists", "mainArtists", "featuredArtists", "licensors",
   "royaltyParties"}

LegacyArtist(stageName, role) ==
  [stageName |-> stageName, role |-> role, royaltyShare |-> 50]

Ann == LegacyArtist("Ann", Some("Main Artist"))
Bob == LegacyArtist("Bob", Null)
Cy == LegacyArtist("Cy", Some("featured"))

AgreementDefaults(labelName, artists, mainArtists, licensors, royaltyParties) ==
  [labelName |-> labelName, artists |-> artists, mainArtists |-> mainArtists,
   featuredArtists |-> <<>>, licensors |-> licensors,
   royaltyParties |-> royaltyParties]

\* role.toLowerCase().includes(word)
roleIncludes(role, word) ==
  CASE role = "Main Artist" -> word = "main"
    [] role = "featured" -> word = "featured"
    [] OTHER -> FALSE

RECURSIVE namesWithRole(_, _)
namesWithRole(seq, word) ==
  IF seq = <<>> THEN <<>>
  ELSE LET artist == Head(seq)
           role == IF artist.role = Null THEN "" ELSE artist.role[1]
           picked ==
             /\ artist.stageName # ""
             /\ IF word = "main" THEN roleIncludes(role, "main")
                ELSE ~roleIncludes(role, "main") /\ roleIncludes(role, word)
       IN (IF picked THEN <<artist.stageName>> ELSE <<>>)
            \o namesWithRole(Tail(seq), word)

deriveFromLegacyArtists(legacyArtists) ==
  [mainArtists |-> namesWithRole(legacyArtists, "main"),
   featuredArtists |-> namesWithRole(legacyArtists, "featured"),
   licensors |->
     [i \in 1..Len(legacyArtists) |->
        [stageName |-> legacyArtists[i].stageName]],
   royaltyParties |->
     [i \in 1..Len(legacyArtists) |->
        [displayName |-> legacyArtists[i].stageName,
         role |-> IF legacyArtists[i].role = Null THEN "Artist"
                  ELSE legacyArtists[i].role[1],
         royaltyShare |-> legacyArtists[i].royaltyShare]]]

\* variant in which an array of the override is appended to the array of
\* the base (sensitivity of MergePrefersOverrideThenDerives)
mergeAgreementDefaultsConcatenates(base, override) ==
  IF override = Null THEN base
  ELSE [f \in Fields |->
          IF f \in override[1].keys
          THEN (IF f = "labelName" THEN override[1].values[f]
                ELSE base[f] \o override[1].values[f])
          ELSE base[f]]

mergeAgreementDefaults(base, override) ==
  IF override = Null THEN base
  ELSE LET merged == [f \in Fields |->
                        IF f \in override[1].keys
                        THEN override[1].values[f] ELSE base[f]]
           hasNewData ==
             Len(merged.licensors) > 0 \/ Len(merged.royaltyParties) > 0
           derived == deriveFromLegacyArtists(merged.artists)
           fill(f) == IF Len(merged[f]) > 0 THEN merged[f] ELSE derived[f]
       IN IF Len(merged.artists) > 0 /\ ~hasNewData
          THEN [merged EXCEPT !.mainArtists = fill("mainArtists"),
                              !.featuredArtists = fill("featuredArtists"),
                              !.licensors = fill("licensors"),
                              !.royaltyParties = fill("royaltyParties")]
          ELSE merged

\* String.prototype.trim on the template directories that occur
trim(text) ==
  CASE text = "  " -> ""
    [] text = " /templates " -> "/templates"
    [] OTHER -> text

buildMergedConfig(base, user) ==
  [agreementDefaults |->
     mergeAgreementDefaults(base.agreementDefaults, user.agreementDefaults),
   templateDirectory |->
     IF user.templateDirectory # Null /\ trim(user.templateDirectory[1]) # ""
     THEN trim(user.templateDirectory[1])
     ELSE base.templateDirectory]

\* the AppConfigUpdate objects: {} is EmptyUpdate
AppConfigUpdate(agreementDefaults, templateDirectory) ==
  [agreementDefaults |-> agreementDefaults,
   templateDirectory |-> templateDirectory]

EmptyUpdate == AppConfigUpdate(Null, Null)

\* an agreementDefaults object that has the given keys only
Override(keys, values) ==
  [keys |-> keys,
   values |-> [f \in Fields |->
                 IF f \in keys THEN values[f]
                 ELSE IF f = "labelName" THEN "" ELSE <<>>]]

Eve == [stageName |-> "Eve"]
Fay == [stageName |-> "Fay"]
EveShare == [displayName |-> "Eve", role |-> "Producer", royaltyShare |-> 50]

Bases ==
  {[agreementDefaults |->
      AgreementDefaults("Base", artists, mainArtists, licensors,
                        royaltyParties),
    templateDirectory |-> directory] :
     artists \in {<<>>, <<Ann, Bob>>}, mainArtists \in {<<>>, <<"Dee">>},
     licensors \in {<<>>, <<Eve>>}, royaltyParties \in {<<>>, <<EveShare>>},
     directory \in {"", "/base"}}

Overrides ==
  {Override(keys, AgreementDefaults("User", artists, <<>>, licensors, <<>>)) :
     keys \in SUBSET {"labelName", "artists", "licensors", "royaltyParties"},
     artists \in {<<>>, <<Cy>>}, licensors \in {<<>>, <<Fay>>}}

UserConfigs ==
  {AppConfigUpdate(agreementDefaults, templateDirectory) :
     agreementDefaults \in {Null} \cup {Some(o) : o \in Overrides},
     templateDirectory \in {Null, Some("  "), Some(" /templates ")}}

MissingFile == [state |-> "missing", data |-> EmptyUpdate]
MalformedFile == [state |-> "malformed", data |-> EmptyUpdate]
ConfigFile(user) == [state |-> "json", data |-> user]

\* the payloads of config:update
Updates ==
  {EmptyUpdate,
   AppConfigUpdate(Null, Some("  ")),
   AppConfigUpdate(Some(Override({"licensors"},
     AgreementDefaults("", <<>>, <<>>, <<>>, <<>>))), Null),
   AppConfigUpdate(Some(Override({"artists", "labelName"},
     AgreementDefaults("User", <<Cy>>, <<>>, <<>>, <<>>))), Null)}

ConfigInit ==
  /\ baseConfig \in Bases
  /\ userFile \in {MissingFile, MalformedFile}
                    \cup {ConfigFile(user) : user \in UserConfigs}
  /\ cachedUserConfig = Null
  /\ cachedMergedConfig = Null
  /\ configReturn = Null

ConfigParked ==
  /\ baseConfig =
       [agreementDefaults |-> AgreementDefaults("Base", <<>>, <<>>, <<>>, <<>>),
        templateDirectory |-> ""]
  /\ userFile = MissingFile
  /\ cachedUserConfig = Null
  /\ cachedMergedConfig = Null
  /\ configReturn = Null

\* readJsonFile throws on a file that JSON.parse rejects
loadUserConfig ==
  IF cachedUserConfig # Null
  THEN [thrown |-> FALSE, user |-> cachedUserConfig[1]]
  ELSE IF userFile.state = "missing"
  THEN [thrown |-> FALSE, user |-> EmptyUpdate]
  ELSE [thrown |-> userFile.state = "malformed", user |-> userFile.data]

getAppConfig ==
  IF cachedMergedConfig # Null
  THEN [thrown |-> FALSE, config |-> cachedMergedConfig[1],
        user |-> cachedUserConfig]
  ELSE [thrown |-> loadUserConfig.thrown,
        config |-> buildMergedConfig(baseConfig, loadUserConfig.user),
        user |-> Some(loadUserConfig.user)]

\* what a handler answers: the configuration, or the failure of its catch
ConfigAnswer(op, outcome, templates) ==
  Some([op |-> op, success |-> ~outcome.thrown,
        config |-> IF outcome.thrown THEN Null ELSE Some(outcome.config),
        templates |-> IF outcome.thrown THEN Null ELSE templates])

\* the caches after getAppConfig or updateAppConfig has run
CachesAfter(outcome) ==
  IF outcome.thrown
  THEN UNCHANGED <<cachedUserConfig, cachedMergedConfig>>
  ELSE /\ cachedUserConfig' = outcome.user
       /\ cachedMergedConfig' = Some(outcome.config)

\* config:get
GetConfig ==
  /\ configReturn' = ConfigAnswer("config:get", getAppConfig, Null)
  /\ CachesAfter(getAppConfig)
  /\ UNCHANGED <<baseConfig, userFile>>
  /\ UNCHANGED besidesConfig

\* generate-pdf resolving the template directory: getContractTemplatesPath
GetContractTemplatesPath ==
  /\ configReturn' =
       ConfigAnswer("generate-pdf", getAppConfig,
                    Some(IF trim(getAppConfig.config.templateDirectory) # ""
                         THEN trim(getAppConfig.config.templateDirectory)
                         ELSE "resources/contract-templates"))
  /\ CachesAfter(getAppConfig)
  /\ UNCHANGED <<baseConfig, userFile>>
  /\ UNCHANGED besidesConfig

\* config:update: updateAppConfig
UpdateConfig(update) ==
  LET currentUser == loadUserConfig.user
      spreadDefaults ==
        IF update.agreementDefaults = Null THEN currentUser.agreementDefaults
        ELSE IF currentUser.agreementDefaults = Null
        THEN update.agreementDefaults
        ELSE LET current == currentUser.agreementDefaults[1]
                 given == update.agreementDefaults[1]
             IN Some([keys |-> current.keys \cup given.keys,
                      values |-> [f \in Fields |->
                                    IF f \in given.keys THEN given.values[f]
                                    ELSE current.values[f]]])
      directory == IF update.templateDirectory = Null
                   THEN currentUser.templateDirectory
                   ELSE update.templateDirectory
      nextUser ==
        AppConfigUpdate(spreadDefaults,
                        IF directory = Null THEN Null
                        ELSE Some(trim(directory[1])))
      outcome == [thrown |-> loadUserConfig.thrown,
                  config |-> buildMergedConfig(baseConfig, nextUser),
                  user |-> Some(nextUser)]
  IN /\ configReturn' = ConfigAnswer("config:update", outcome, Null)
     /\ CachesAfter(outcome)
     /\ userFile' = IF outcome.thrown THEN userFile ELSE ConfigFile(nextUser)
     /\ UNCHANGED baseConfig
     /\ UNCHANGED besidesConfig

NextConfig ==
  \/ GetConfig
  \/ GetContractTemplatesPath
  \/ \E update \in Updates : UpdateConfig(update)

EvalParked == arg = Null /\ result = Null

vars == <<sessionVars, compileVars, hubVars, evalVars, configVars>>

Init ==
  ConfigParked /\ SessionInit /\ CompileParked /\ HubParked /\ EvalParked

Spec == Init /\ [][Next]_vars

InitCompile ==
  ConfigParked /\ SessionParked /\ CompileInit /\ HubParked /\ EvalParked

SpecCompile == InitCompile /\ [][NextCompile]_vars

InitProjects ==
  ConfigParked /\ SessionParked /\ CompileParked /\ HubInit /\ EvalParked

SpecProjects == InitProjects /\ [][NextProjects]_vars

\* the session opened on a project whose agreement_data.json holds the
\* legacy artists list and none of the party lists
LegacyFile ==
  JsonFile(Persisted({"labelShare", "artists"}, JsNumber(Percent(60)), <<>>,
                     <<Party(JsNumber(Percent(40)))>>))

InitLegacy ==
  /\ ConfigParked
  /\ disk = [p \in Projects |-> IF p = "A" THEN LegacyFile ELSE AbsentFile]
  /\ SessionStart
  /\ CompileParked /\ HubParked /\ EvalParked

SpecLegacy == InitLegacy /\ [][Next]_vars

\* The session under timers that fire, loads that return and a compiler that
\* always succeeds, opened on a project whose saved form passes the share
\* check.  setTimeout runs every callback that is not cleared, and main.ts
\* answers every invoke: weak fairness of the three timer callbacks and of
\* the returns.
InitLive ==
  /\ ConfigParked
  /\ disk = [p \in Projects |->
               IF p = "A" THEN JsonFile(toPersisted(Valid6040)) ELSE AbsentFile]
  /\ SessionStart
  /\ CompileParked /\ HubParked /\ EvalParked

LoadReturns ==
  \E l \in loads : CancelledLoadReturn(l) \/ LoadReturn(l)

CompileSucceeds == \E c \in compiles : CompileReturn(c, TRUE)

NextLive ==
  \/ \E p \in Projects : SelectProject(p)
  \/ ReselectProject
  \/ LoadReturns
  \/ \E v \in EditValues : ValuesChange(v)
  \/ ValidationTimerFire
  \/ PreviewTimerFire
  \/ SaveTimerFire
  \/ CompileSucceeds
  \/ ManualSave
  \/ ManualGenerate
  \/ FinalGenerate
  \/ RetryPreview

SpecLive ==
  /\ InitLive
  /\ [][NextLive]_vars
  /\ WF_vars(ValidationTimerFire)
  /\ WF_vars(PreviewTimerFire)
  /\ WF_vars(SaveTimerFire)
  /\ WF_vars(LoadReturns)
  /\ WF_vars(CompileSucceeds)

\* the session opened on a project whose agreement_data.json cannot be
\* parsed, under a base configuration whose default royalty party takes the
\* 40 percent that the default label share of 60 leaves
DefaultParty == [displayName |-> "Eve", role |-> "Producer", royaltyShare |-> 40]

InitUnreadable ==
  /\ baseConfig =
       [agreementDefaults |->
          AgreementDefaults("Base", <<>>, <<>>, <<>>, <<DefaultParty>>),
        templateDirectory |-> ""]
  /\ userFile = MissingFile
  /\ cachedUserConfig = Null
  /\ cachedMergedConfig = Null
  /\ configReturn = Null
  /\ disk = [p \in Projects |-> IF p = "A" THEN CorruptFile ELSE AbsentFile]
  /\ SessionStart
  /\ CompileParked /\ HubParked /\ EvalParked

SpecUnreadable == InitUnreadable /\ [][Next]_vars

InitConfig ==
  ConfigInit /\ SessionParked /\ CompileParked /\ HubParked /\ EvalParked

SpecConfig == InitConfig /\ [][NextConfig]_vars

(***************************************************************************)
(* computeShareMetrics evaluated on its own, for snapshots as the form or  *)
(* an agreement_data.json can hold them.                                   *)
(***************************************************************************)
MaxParties == 2

\* label shares: 60, 59.99, none, and a string that is no number
LabelShares == {JsNumber(Percent(60)), JsNumber(59990), JsNull, JsString}

\* royalty shares: 40, 30, 39.99, 39.991, none, and a string that is no number
RoyaltyShares ==
  {JsNumber(Percent(40)), JsNumber(Percent(30)), JsNumber(39990),
   JsNumber(39991), JsNull, JsString}

ShareSnapshots ==
  {FormValue(label, [i \in 1..n |-> Party(shares[i])]) :
     label \in LabelShares, n \in 0..MaxParties,
     shares \in [1..MaxParties -> RoyaltyShares]}

InitShares ==
  /\ ConfigParked /\ SessionParked /\ CompileParked /\ HubParked
  /\ arg \in {Some(v) : v \in ShareSnapshots}
  /\ result = Null

EvaluateShares ==
  /\ result = Null
  /\ result' = Some(computeShareMetrics(arg[1]))
  /\ UNCHANGED arg
  /\ UNCHANGED besidesEval

NextShares == EvaluateShares

SpecShares == InitShares /\ [][NextShares]_vars

(***************************************************************************)
(* Reconciliation of the form value with the persisted agreement:          *)
(* toFormValues(toPersisted(x), x) for one form value x.                   *)
(***************************************************************************)

ReleaseDates ==
  {Dayjs(day, time) : day \in Days, time \in {"00:00", "14:30"}}
    \cup {NoDate, InvalidDayjs}

ReleaseDateIsos == {DateString(day) : day \in Days} \cup {NoDate}

ReconcileValues ==
  {[FormValue(JsNumber(Percent(60)), [i \in 1..n |-> Party(shares[i])])
      EXCEPT !.releaseDate = date, !.releaseDateISO = iso,
             !.artists = legacy] :
     n \in 0..MaxParties,
     shares \in [1..MaxParties ->
                  {JsNumber(Percent(40)), JsNumber(Percent(30))}],
     date \in ReleaseDates, iso \in ReleaseDateIsos,
     legacy \in {<<>>, <<Party(JsNumber(Percent(40)))>>}}

InitReconcile ==
  /\ ConfigParked
  /\ SessionParked
  /\ CompileParked
  /\ HubParked
  /\ arg \in {Some(x) : x \in ReconcileValues}
  /\ result = Null

Reconcile ==
  /\ result = Null
  /\ result' = Some(toFormValues(Some(toPersisted(arg[1])), arg[1]))
  /\ UNCHANGED arg
  /\ UNCHANGED besidesEval

NextReconcile == Reconcile

SpecReconcile == InitReconcile /\ [][NextReconcile]_vars

(***************************************************************************)
(* sanitize of generator.ts evaluated on its own.  An input string is the  *)
(* sequence of its characters; the output is a string.                     *)
(***************************************************************************)

MaxLen == 2

Specials == {"&", "%", "$", "#", "_", "{", "}", "~", "^", "\\"}

Alphabet == Specials \cup {"a"}

Text(chars) == [t |-> "string", chars |-> chars]
NoText(t) == [t |-> t, chars |-> <<>>]

SanitizeInputs ==
  {Text(chars) : chars \in UNION {[1..n -> Alphabet] : n \in 0..MaxLen}}
    \cup {NoText("null"), NoText("undefined")}

replacements(match) ==
  CASE match = "&" -> "\\&"
    [] match = "%" -> "\\%"
    [] match = "$" -> "\\$"
    [] match = "#" -> "\\#"
    [] match = "_" -> "\\_"
    [] match = "{" -> "\\{"
    [] match = "}" -> "\\}"
    [] match = "~" -> "\\textasciitilde{}"
    [] match = "^" -> "\\textasciicircum{}"
    [] match = "\\" -> "\\textbackslash{}"

\* the string of a character sequence
RECURSIVE Join(_)
Join(chars) == IF chars = <<>> THEN "" ELSE Head(chars) \o Join(Tail(chars))

\* String.prototype.replace with a pattern that has no g flag: the first
\* match only (sensitivity of SanitizeEscapesInOrder)
replaceFirstMatch(chars) ==
  LET matches == {i \in 1..Len(chars) : chars[i] \in Specials}
  IN IF matches = {} THEN Join(chars)
     ELSE LET first == CHOOSE i \in matches : \A j \in matches : i <= j
          IN Join(SubSeq(chars, 1, first - 1))
               \o replacements(chars[first])
               \o Join(SubSeq(chars, first + 1, Len(chars)))

\* stringValue.replace(/[&%$#_{}~^\\]/g, (match) => replacements[match]):
\* every match in the input, left to right, the text between kept
RECURSIVE replaceEveryMatch(_)
replaceEveryMatch(chars) ==
  LET matches == {i \in 1..Len(chars) : chars[i] \in Specials}
  IN IF matches = {} THEN Join(chars)
     ELSE LET first == CHOOSE i \in matches : \A j \in matches : i <= j
          IN Join(SubSeq(chars, 1, first - 1))
               \o replacements(chars[first])
               \o replaceEveryMatch(SubSeq(chars, first + 1, Len(chars)))

sanitize(value) ==
  IF value.t \in {"null", "undefined"} THEN ""
  ELSE replaceEveryMatch(value.chars)

InitSanitize ==
  /\ ConfigParked /\ SessionParked /\ CompileParked /\ HubParked
  /\ arg \in {Some(value) : value \in SanitizeInputs}
  /\ result = Null

Sanitize ==
  /\ result = Null
  /\ result' = Some(sanitize(arg[1]))
  /\ UNCHANGED arg
  /\ UNCHANGED besidesEval

NextSanitize == Sanitize

SpecSanitize == InitSanitize /\ [][NextSanitize]_vars

(***************************************************************************)
(* generateConfig of generator.ts on the label share and the royalty       *)
(* parties of one compiler input that the session dispatches.  A party     *)
(* holds displayName, legalName and royaltyShare; a share is written as    *)
(* the text of its number, which has no character that sanitize escapes,   *)
(* and is kept here as the number that the text denotes.                   *)
(***************************************************************************)

NamedParty(displayName, legalName, share) ==
  [displayName |-> displayName, legalName |-> legalName, royaltyShare |-> share]

PartyNames == {Text(<<>>), Text(<<"a">>), NoText("undefined")}

NamedParties ==
  {NamedParty(displayName, legalName, share) :
     displayName \in PartyNames, legalName \in {Text(<<>>), Text(<<"a">>)},
     share \in {JsNumber(Percent(40)), JsNumber(Percent(60)),
                JsNumber(Percent(100)), JsNull}}

CompilerInputs ==
  {[labelShare |-> label, royaltyParties |-> parties, artists |-> <<>>] :
     label \in {JsNumber(Percent(60)), JsNumber(0)},
     parties \in UNION {[1..n -> NamedParties] : n \in 0..MaxParties}}

\* value ?? ''
OrEmpty(value) ==
  IF value.t \in {"null", "undefined"} THEN Text(<<>>) ELSE value

\* lines 144-146: a party without display name and legal name is left out
IsWritten(displayName, legalName) ==
  ~(displayName = "" /\ legalName = "")

RECURSIVE royaltyPartyCommands(_)
royaltyPartyCommands(parties) ==
  IF parties = <<>> THEN <<>>
  ELSE LET party == Head(parties)
           displayName == sanitize(OrEmpty(party.displayName))
           legalName == sanitize(OrEmpty(party.legalName))
           share == party.royaltyShare
       IN (IF IsWritten(displayName, legalName)
           THEN <<[displayName |-> displayName, legalName |-> legalName,
                   share |-> share]>>
           ELSE <<>>) \o royaltyPartyCommands(Tail(parties))

\* the \labelShare and \addroyaltyparty lines of agreement-config.tex
generateConfig(data) ==
  LET explicit == data.royaltyParties
      derivedRoyaltyParties ==
        [i \in 1..Len(data.artists) |->
           NamedParty(data.artists[i].stageName, data.artists[i].legalName,
                      data.artists[i].royaltyShare)]
      resolvedRoyaltyParties ==
        IF Len(explicit) > 0 THEN explicit ELSE derivedRoyaltyParties
  IN [labelShare |->
        IF data.labelShare.t = "number" /\ data.labelShare.n # 0
        THEN data.labelShare ELSE JsString,
      commands |-> royaltyPartyCommands(resolvedRoyaltyParties)]

\* the shares that agreement-config.tex allocates, read back as numbers
RECURSIVE WrittenShares(_)
WrittenShares(commands) ==
  IF commands = <<>> THEN JsNumber(0)
  ELSE JsAdd(NumberOrZero(Head(commands).share),
             WrittenShares(Tail(commands)))

WrittenTotal(written) ==
  ToFixed2(JsAdd(NumberOrZero(written.labelShare),
                 WrittenShares(written.commands)))

InitGenerate ==
  /\ ConfigParked /\ SessionParked /\ CompileParked /\ HubParked
  /\ arg \in {Some(data) : data \in CompilerInputs}
  /\ result = Null

GenerateConfig ==
  /\ result = Null
  /\ result' = Some(generateConfig(arg[1]))
  /\ UNCHANGED arg
  /\ UNCHANGED besidesEval

NextGenerate == GenerateConfig

SpecGenerate == InitGenerate /\ [][NextGenerate]_vars

\* toPdfInput evaluated on one form value
BuildPdfInput ==
  /\ result = Null
  /\ result' = Some(toPdfInput(arg[1]))
  /\ UNCHANGED arg
  /\ UNCHANGED besidesEval

NextPdfInput == BuildPdfInput

SpecPdfInput == InitReconcile /\ [][NextPdfInput]_vars

(***************************************************************************)
(* Properties of the editing session.                                      *)
(***************************************************************************)

\* the compile and save requests that a step dispatches
NewRequests ==
  (compiles' \ compiles) \cup
  (IF lastSave' # lastSave /\ lastSave' # Null THEN {lastSave'[1]} ELSE {})

\* C1: when the compile request stamped N returns, with success or with
\* failure, while the current operation id is some M > N, the displayed
\* preview (the pdf handed to onPdfGenerated), the preview status and the
\* preview error stay as they were.
StaleResultLeavesPreview ==
  [][\A c \in compiles, success \in BOOLEAN :
        (CompileReturn(c, success) /\ c.opId < opIdRef)
          => UNCHANGED <<pdf, previewStatus, previewError>>]_vars

\* a superseded compile has returned: nothing is in flight, no later operation
\* has dispatched anything, and the generating flag that only the return of
\* the current operation takes down is still up
StaleResultReturned ==
  /\ compiles = {}
  /\ isGenerating
  /\ maxDispatched > 0
  /\ maxDispatched < opIdRef

\* C2 (as the claim states it): every compile request in flight and the last
\* save request carry a snapshot whose label share plus royalty shares is
\* within 0.01 of 100.
DispatchedSnapshotsSumTo100 ==
  /\ \A c \in compiles : SumsTo100(c.snapshot)
  /\ lastSave # Null => SumsTo100(lastSave[1].snapshot)

\* C3: no compile and no save is dispatched with the id of a form change
\* whose snapshot fails share validation, and the ids of the dispatched
\* requests never go back: with changes o1 < o2 < o3 of which o2 fails, nothing
\* of o2 is dispatched and nothing of o1 after something of o3.
OnlyValidatedChangesInOrder ==
  [][\A r \in NewRequests :
        /\ opKind'[r.opId] # "invalid change"
        /\ r.opId >= maxDispatched]_vars

\* compiles of two valid form changes o1 < o3 are out, with a form change o2
\* that fails validation between them
ValidInvalidValidDispatched ==
  \E c1, c3 \in compiles :
    /\ c1.opId < c3.opId
    /\ opKind[c1.opId] = "valid change"
    /\ opKind[c3.opId] = "valid change"
    /\ \E o2 \in (c1.opId + 1)..(c3.opId - 1) : opKind[o2] = "invalid change"

\* the re-check that a scheduled effect has to pass when it fires
TagIsLive(t) ==
  /\ t.opId = opIdRef
  /\ lastValidOpIdRef = Some(t.opId)
  /\ t.path = activeProject

\* C4: a scheduled compile or autosave that fires dispatches its request when
\* its tag is the current and the last validated id and its project is the
\* active one, and otherwise dispatches nothing and changes nothing of the
\* session (only the fired timer is no longer pending).
ScheduledEffectsRecheck ==
  [][/\ PreviewTimerFire =>
          LET t == previewTimerRef[1]
          IN IF TagIsLive(t)
             THEN compiles' = compiles \cup
                    {CompileCall(t.snapshot, t.opId, "preview", t.path)}
             ELSE UNCHANGED <<appVars, form, refVars, validationTimerRef,
                              saveTimerRef, stateVars, ipcVars>>
     /\ SaveTimerFire =>
          LET t == saveTimerRef[1]
          IN IF TagIsLive(t)
             THEN lastSave' = Some(SaveCall(t.snapshot, t.opId, t.path))
             ELSE UNCHANGED <<appVars, form, refVars, validationTimerRef,
                              previewTimerRef, stateVars, ipcVars>>]_vars

\* the preview timer of a superseded operation has fired and has done
\* nothing: the save timer set with it is still pending, its operation is no
\* longer current, and no compile was dispatched since the project was opened
ObsoleteTimerFired ==
  /\ previewTimerRef = Null
  /\ saveTimerRef # Null
  /\ saveTimerRef[1].opId < opIdRef
  /\ maxDispatched < saveTimerRef[1].opId
  /\ previewStatus = "idle"

\* what a result of the previous project must leave alone
ShownForActiveProject ==
  <<pdf, form, shareTotal, shareError, lastValidOpIdRef, validatedSnapshotRef,
    previewStatus, previewError, isPreviewStale>>

\* C5: a switch of the active project clears every pending timer, cancels
\* the loads in flight and requests the new project's data; afterwards no
\* request is dispatched for another path than the active one, the result
\* of a cancelled load or of a compile of another project changes nothing
\* of the form, the validation state or the preview, and the load of the
\* active project fills the form from its file and validates it in the
\* same step.
SwitchResetsSequencer ==
  [][/\ activeProject' # activeProject =>
          /\ validationTimerRef' = Null
          /\ previewTimerRef' = Null
          /\ saveTimerRef' = Null
          /\ \A l \in loads' : ~l.cancelled => l.path = activeProject'
          /\ \E l \in loads' : ~l.cancelled
     /\ \A r \in NewRequests : r.path = activeProject'
     /\ \A l \in loads :
          (loads' = loads \ {l} /\ l.cancelled)
            => UNCHANGED ShownForActiveProject
     /\ \A c \in compiles :
          (compiles' = compiles \ {c} /\ c.path # activeProject)
            => UNCHANGED ShownForActiveProject
     /\ \A l \in loads :
          (loads' = loads \ {l} /\ ~l.cancelled)
            => /\ l.path = activeProject
               /\ form' = toFormValues(IF l.success THEN l.data ELSE Null,
                                       defaults)
               /\ shareError' = computeShareMetrics(form').error
               /\ shareTotal' = computeShareMetrics(form').total
               /\ validationTimerRef' = Null
               /\ shareError' = Null => lastValidOpIdRef' = Some(opIdRef')
               /\ ~isProjectLoading']_vars

\* B is open, its file is loaded and validated, and a compile requested
\* while A was open, for other values than B's, is still to return
SwitchedWithResultsPending ==
  /\ activeProject = "B"
  /\ ~isProjectLoading
  /\ form = toFormValues(IF disk["B"].state = "json" THEN Some(disk["B"].data)
                         ELSE Null, defaults)
  /\ shareError = computeShareMetrics(form).error
  /\ \E c \in compiles : c.path = "A" /\ c.snapshot # form

\* C6: a manual save, preview or final generation whose form values fail
\* share validation dispatches nothing and leaves the current and the last
\* validated operation id alone; one whose values pass takes the next
\* operation id, makes it the last validated one and dispatches its own
\* request in the same step.
ManualTriggersValidateThenDispatch ==
  [][LET fails == computeShareMetrics(form).error # Null
         rejected == /\ NewRequests = {}
                     /\ UNCHANGED <<opIdRef, lastValidOpIdRef, compiles,
                                    lastSave, disk>>
         stamped == /\ opIdRef' = opIdRef + 1
                    /\ lastValidOpIdRef' = Some(opIdRef')
         save == SaveCall(form, opIdRef', activeProject)
         compile(mode) == CompileCall(form, opIdRef', mode, activeProject)
     IN /\ ManualSave =>
             IF fails THEN rejected
             ELSE stamped /\ lastSave' = Some(save) /\ compiles' = compiles
        /\ ManualGenerate =>
             IF fails THEN rejected
             ELSE stamped /\ compiles' = compiles \cup {compile("preview")}
                          /\ compile("preview") \notin compiles
        /\ FinalGenerate =>
             IF fails THEN rejected
             ELSE stamped /\ lastSave' = Some(save)
                          /\ compiles' = compiles \cup {compile("final")}
                          /\ compile("final") \notin compiles]_vars

\* a final generation has just passed: its operation is the current and the
\* last validated one and both its save and its final compile are out
FinalGenerationDispatched ==
  /\ lastValidOpIdRef = Some(opIdRef)
  /\ lastSave # Null
  /\ lastSave[1].opId = opIdRef
  /\ \E c \in compiles : c.opId = opIdRef /\ c.mode = "final"

\* C7 (as the claim states it): when the user leaves a project whose current
\* operation is a form change with a valid snapshot, the project's
\* agreement_data.json holds that form, so that opening the project again
\* loads the change.
ValidChangeWrittenBeforeLeaving ==
  [][(activeProject' # activeProject /\ opKind[opIdRef] = "valid change")
        => disk[activeProject] = JsonFile(toPersisted(form))]_vars

\* C8 (as the claim states it): two compiles of one project are never in
\* flight together; every compile of a project writes the same
\* master-agreement-template.pdf of its directory.
OneCompilePerProject ==
  \A c1, c2 \in compiles : c1.path = c2.path => c1 = c2

\* C19: the current operation id never decreases and strictly increases on
\* every form change, every accepted manual trigger and every project
\* switch; the last validated id is empty exactly when the validated
\* snapshot is empty, and otherwise it is at most the current id, was not
\* assigned to a form change with an invalid snapshot, and the validated
\* snapshot passes computeShareMetrics.
OperationIdsAdvance ==
  /\ [](/\ lastValidOpIdRef = Null <=> validatedSnapshotRef = Null
        /\ lastValidOpIdRef # Null =>
             /\ lastValidOpIdRef[1] <= opIdRef
             /\ opKind[lastValidOpIdRef[1]] # KindOfChange(Invalid6030)
             /\ computeShareMetrics(validatedSnapshotRef[1]).error = Null)
  /\ [][/\ opIdRef' >= opIdRef
        /\ (\/ form' # form
            \/ activeProject' # activeProject
            \/ NewRequests # {} /\ lastValidOpIdRef' # lastValidOpIdRef)
             => opIdRef' > opIdRef]_vars

\* a form change has followed a validated operation: the last validated id
\* is behind the current one
ValidatedIdBehindCurrent ==
  /\ lastValidOpIdRef # Null
  /\ lastValidOpIdRef[1] < opIdRef
  /\ validationTimerRef # Null
  /\ validationTimerRef[1].opId = opIdRef

\* the timeouts of one kind that run
Running(table, kind) == {e \in table : e.kind = kind}

\* C20: at most one validation, one preview and one save timeout runs at any
\* time; a form change leaves exactly one validation timeout running, the
\* one of its own snapshot, so that of a burst of changes only the last has
\* a timeout left to fire; and a validation timeout that fires for the
\* current operation id validates the snapshot of the last change, once.
OneTimerOfEachKind ==
  /\ [](\A kind \in {"validation", "preview", "save"} :
          Cardinality(Running(timers, kind)) <= 1)
  /\ [][(form' # form /\ ~isProjectLoading) =>
          Running(timers', "validation") =
            {[kind |-> "validation",
              timer |-> Timer(cloneFormValues(form'), opIdRef',
                              activeProject)]}]_vars
  /\ [][\A fired \in Running(timers, "validation") \ timers' :
          (opIdRef' = opIdRef /\ fired.timer.opId = opIdRef) =>
            /\ fired.timer.snapshot = cloneFormValues(form)
            /\ latestValuesRef' = fired.timer.snapshot
            /\ shareError' = computeShareMetrics(fired.timer.snapshot).error
            /\ Running(timers', "validation") = {}]_vars

\* two form changes in a row, the first one valid and never validated, and
\* one validation timeout running, for the snapshot of the second
BurstLeavesOneValidationTimer ==
  /\ opIdRef > 1
  /\ opKind[opIdRef] \in {KindOfChange(Valid6040), KindOfChange(Invalid6030)}
  /\ opKind[opIdRef - 1] = KindOfChange(Valid6040)
  /\ lastValidOpIdRef # Null
  /\ lastValidOpIdRef[1] < opIdRef - 1
  /\ Running(timers, "validation") =
       {[kind |-> "validation",
         timer |-> Timer(cloneFormValues(form), opIdRef, activeProject)]}

\* C21: no save request of the session carries the legacy artists list,
\* also when the file of the project holds only the legacy list.
SavesCarryNoLegacyList ==
  lastSave # Null =>
    /\ "artists" \notin lastSave[1].agreementData.keys
    /\ lastSave[1].agreementData.artists = <<>>

\* a save of the project with the legacy file: the snapshot holds the legacy
\* list, the request holds the royalty parties derived from it and no list
LegacyProjectSaved ==
  /\ lastSave # Null
  /\ lastSave[1].path = "A"
  /\ Len(lastSave[1].snapshot.artists) > 0
  /\ lastSave[1].agreementData.royaltyParties =
       <<Party(JsNumber(Percent(40)))>>
  /\ "artists" \notin lastSave[1].agreementData.keys

\* C23: every save request for a project carries a snapshot that was hydrated
\* from that project's load or edited while it was the active, loaded
\* project: no save is dispatched between the switch to a project and the
\* return of its load, when the form still holds the previous project's
\* values.
SavesCarryLoadedProjectForm ==
  [][lastSave' # lastSave =>
       /\ ~isProjectLoading
       /\ lastSave'[1].path = activeProject]_vars

\* C24: when the load of a project's data has failed, the file that could
\* not be read is not written until the user changes the form or saves
\* explicitly: a step that replaces an unreadable agreement_data.json is a
\* manual save, or an autosave that follows a change of the form.
UnreadableFileKeptUntilUserActs ==
  [][\A p \in Projects :
       (disk[p].state = "corrupt" /\ disk'[p] # disk[p]) =>
         \/ opIdRef' # opIdRef
         \/ \E changed \in 1..lastSave'[1].opId :
              opKind[changed] \in {"valid change", "invalid change"}]_vars

\* C25: isGenerating is true only while a compile request is in flight: in
\* every state in which all dispatched compiles have returned, isGenerating
\* is false.
GeneratingOnlyWhileCompiling == compiles = {} => ~isGenerating

\* C26: under fair timers and a compiler that always succeeds, when the form
\* stops changing with a snapshot that passes validation, onPdfGenerated is
\* eventually called with a compile of that snapshot, which
\* lastSuccessfulSnapshotRef then records for good; a 'save now' after the
\* last change does not prevent it.
LastSnapshotEventuallyShown ==
  <>[](computeShareMetrics(form).error = Null /\ ~isProjectLoading)
    => <>[](lastSuccessfulSnapshotRef = Some(cloneFormValues(form)))

(***************************************************************************)
(* Properties of the compile orchestrator.                                 *)
(***************************************************************************)

\* job j is a final generation, and every other invocation made so far is a
\* final generation for another release title, hence another desired name
AmongDistinctFinals(j) ==
  /\ jobs[j].mode = "final"
  /\ \A k \in 1..MaxJobs \ {j} :
        jobs[k].state # "idle"
          => jobs[k].mode = "final" /\ jobs[k].title # jobs[j].title

\* C9 (as the claim states it): a final generation that runs among final
\* generations with other desired names, whose latexmk wrote its pdf and
\* exited with code 0 and whose rename did not throw, succeeds and returns
\* the file of its own desired name, compiled from its own agreement.
DistinctFinalsDoNotCollide ==
  \A j \in 1..MaxJobs :
    (/\ jobs[j].state = "done"
     /\ AmongDistinctFinals(j)
     /\ templateExists
     /\ jobs[j].wrote
     /\ jobs[j].code = 0
     /\ ~jobs[j].renameThrew)
      => /\ jobs[j].success
         /\ jobs[j].pdfPath = desiredPdfPath("final", jobs[j].title)
         /\ jobs[j].delivered = Some(jobs[j].title)

\* C10 (as the claim states it): an invocation whose latexmk has exited
\* reports success exactly when the exit code was 0 or 12 and the generated
\* pdf was in place.
SuccessIffExitAndFile ==
  \A j \in 1..MaxJobs :
    (jobs[j].state = "done" /\ templateExists)
      => (jobs[j].success <=> (jobs[j].code \in {0, 12} /\ jobs[j].existed))

\* C10 (amended): an invocation whose latexmk has exited reports success
\* exactly when the exit code was 0 or 12, the generated pdf was in place
\* and, where another name was asked for, moving the pdf to that name did not
\* throw; a success carries the path of the asked name, where the pdf then is.
SuccessIffExitFileAndRename ==
  \A j \in 1..MaxJobs :
    (jobs[j].state = "done" /\ templateExists)
      => LET desired == desiredPdfPath(jobs[j].mode, jobs[j].title)
         IN /\ jobs[j].success <=>
                 /\ jobs[j].code \in {0, 12}
                 /\ jobs[j].existed
                 /\ desired = pdfFileName \/ ~jobs[j].renameThrew
            /\ jobs[j].success =>
                 /\ jobs[j].pdfPath = desired
                 /\ jobs[j].delivered # Null

\* a final generation whose latexmk exited with code 12 has reported success
\* with the path of its desired name
WarningsExitReportedSuccess ==
  \E j \in 1..MaxJobs :
    /\ jobs[j].state = "done"
    /\ jobs[j].code = 12
    /\ jobs[j].success
    /\ jobs[j].pdfPath # pdfFileName

(***************************************************************************)
(* Properties of the project operations.                                   *)
(***************************************************************************)

\* the path names a directory strictly below the projects root
StrictlyInsideRoot(path) ==
  LET r == resolve(path)
  IN /\ Len(r) > Len(ProjectsRoot)
     /\ SubSeq(r, 1, Len(ProjectsRoot)) = ProjectsRoot

\* C11 (as the claim states it): an operation that is given a path that is
\* not strictly inside the projects root answers with a failure and leaves
\* every directory and file as it was.
OutsidePathsRejected ==
  [][(lastCall' # Null /\ ~StrictlyInsideRoot(lastCall'[1].path))
        => ~lastCall'[1].success /\ tree' = tree]_vars

(***************************************************************************)
(* Properties of computeShareMetrics.                                      *)
(***************************************************************************)

\* the label share or a royalty share does not coerce to a finite number
HasNonFiniteShare(values) ==
  \/ ~IsFinite(NumberOrZero(values.labelShare))
  \/ \E i \in 1..Len(values.royaltyParties) :
       ~IsFinite(NumberOrZero(values.royaltyParties[i].royaltyShare))

\* every share is a number
AllNumeric(values) ==
  /\ values.labelShare.t = "number"
  /\ \A i \in 1..Len(values.royaltyParties) :
        values.royaltyParties[i].royaltyShare.t = "number"

\* label share + royalty shares, exactly
RECURSIVE ExactSum(_)
ExactSum(parties) ==
  IF parties = <<>> THEN 0
  ELSE Head(parties).royaltyShare.n + ExactSum(Tail(parties))

\* C12 (as the claim states it): computeShareMetrics returns an error for a
\* snapshot whose label share or one of whose royalty shares does not coerce
\* to a finite number.
NonFiniteShareIsAnError ==
  (result # Null /\ HasNonFiniteShare(arg[1])) => result[1].error # Null

\* C13 (as the claim states it): for numeric shares computeShareMetrics
\* returns no error exactly when label share + royalty shares is within 0.01
\* of 100, and otherwise the error about the total.
NoErrorIffWithinTolerance ==
  (result # Null /\ AllNumeric(arg[1])) =>
    LET sum == arg[1].labelShare.n + ExactSum(arg[1].royaltyParties)
    IN IF sum >= Percent(100) - 10 /\ sum <= Percent(100) + 10
       THEN result[1].error = Null
       ELSE result[1].error = Some(TotalError)

(***************************************************************************)
(* Properties of the reconciliation.                                       *)
(***************************************************************************)

\* C14 (as the claim states it): for a form value x with a valid
\* releaseDate, toFormValues(toPersisted(x), x) equals x on labelShare,
\* royaltyParties, releaseDate and releaseDateISO.
RoundTripIsIdentity ==
  (result # Null /\ isValid(arg[1].releaseDate)) =>
    /\ result[1].labelShare = arg[1].labelShare
    /\ result[1].royaltyParties = arg[1].royaltyParties
    /\ result[1].releaseDate = arg[1].releaseDate
    /\ result[1].releaseDateISO = arg[1].releaseDateISO

\* C14 (amended): for a form value x with a valid releaseDate the round trip
\* keeps labelShare and the party lists, yields the start of the day of
\* x.releaseDate as releaseDate and that day in YYYY-MM-DD form as
\* releaseDateISO; so it is x itself exactly when x.releaseDate is at the
\* start of its day and x.releaseDateISO names that day.
RoundTripNormalisesDate ==
  (result # Null /\ isValid(arg[1].releaseDate)) =>
    /\ result[1].labelShare = arg[1].labelShare
    /\ result[1].royaltyParties = arg[1].royaltyParties
    /\ result[1].artists = arg[1].artists
    /\ result[1].releaseDate = Dayjs(arg[1].releaseDate.day, "00:00")
    /\ result[1].releaseDateISO = DateString(arg[1].releaseDate.day)
    /\ (result[1] = arg[1]) <=>
         /\ arg[1].releaseDate.time = "00:00"
         /\ arg[1].releaseDateISO = DateString(arg[1].releaseDate.day)

\* a form value with two royalty parties, a date at the start of its day and
\* the matching releaseDateISO has gone through the round trip unchanged
RoundTripReturnedItsInput ==
  /\ result # Null
  /\ isValid(arg[1].releaseDate)
  /\ Len(arg[1].royaltyParties) = MaxParties
  /\ arg[1].releaseDateISO = DateString(arg[1].releaseDate.day)
  /\ result[1] = arg[1]

\* C22 (as the claim states it): toPdfInput(form) equals toPersisted(form)
\* on every field, the date fields included, and adds the long date string,
\* which is empty when the form has no date.
PdfInputEqualsPersisted ==
  result # Null =>
    LET persisted == toPersisted(arg[1])
    IN /\ result[1].labelShare = persisted.labelShare
       /\ result[1].royaltyParties = persisted.royaltyParties
       /\ result[1].releaseDate = persisted.releaseDate
       /\ result[1].releaseDateISO = persisted.releaseDateISO
       /\ result[1].keys = persisted.keys \cup {"releaseDateFormatted"}

\* C22 (amended): toPdfInput(form) equals toPersisted(form) on every field
\* but releaseDate: releaseDateISO is the ISO date of the persisted shape,
\* while releaseDate holds, as the added releaseDateFormatted does, the long
\* date string of that date, the empty string when there is none.
PdfInputFormatsReleaseDate ==
  result # Null =>
    LET persisted == toPersisted(arg[1])
        long == IF persisted.releaseDateISO = DateString("2024-01-05")
                THEN "January 5, 2024"
                ELSE IF persisted.releaseDateISO = DateString("2024-02-29")
                THEN "February 29, 2024"
                ELSE IF persisted.releaseDateISO = NoDate THEN ""
                ELSE "Invalid Date"
    IN /\ result[1].labelShare = persisted.labelShare
       /\ result[1].royaltyParties = persisted.royaltyParties
       /\ result[1].releaseDateISO = persisted.releaseDateISO
       /\ result[1].releaseDate = DateString(long)
       /\ result[1].releaseDateFormatted = DateString(long)
       /\ result[1].keys = persisted.keys \cup {"releaseDateFormatted"}

\* a form value with a date in the afternoon of 5 January 2024 has been
\* converted: ISO date and long date are both in the compiler input
PdfInputBuiltForDate ==
  /\ result # Null
  /\ arg[1].releaseDate = Dayjs("2024-01-05", "14:30")
  /\ result[1].releaseDateISO = DateString("2024-01-05")
  /\ result[1].releaseDateFormatted = DateString("January 5, 2024")

\* C27: once deleteProject(path) or renameProject(path, newName) has
\* succeeded, a later request of the session that is still open on that
\* path, a pending preview compile or autosave, creates no directory or file
\* at the old path.
RemovedPathStaysRemoved ==
  [][(/\ lastCall # Null
      /\ lastCall[1].op \in {"delete", "rename"}
      /\ lastCall[1].success
      /\ lastCall'[1].op \in {"generate", "save"}
      /\ lastCall'[1].path = lastCall[1].path)
       => tree'[resolve(lastCall[1].path)] = Null]_vars

\* C28: for every compile that the session dispatches, the label share and
\* the royalty shares of the royalty-party commands that generateConfig
\* writes sum to 100 within 0.01: every party that computeShareMetrics
\* counted is written.
WrittenSharesSumTo100 ==
  (result # Null /\ computeShareMetrics(arg[1]).error = Null) =>
    /\ IsFinite(WrittenTotal(result[1]))
    /\ ~OffByMoreThanTolerance(WrittenTotal(result[1]))
    /\ Len(result[1].commands) = Len(arg[1].royaltyParties)

\* C29: when the form's releaseDate is null, toPersisted yields a null
\* releaseDate and a null releaseDateISO, so that a cleared release date is
\* not written by the next save and does not come back when the saved
\* agreement is loaded again.
ClearedDateStaysCleared ==
  (result # Null /\ arg[1].releaseDate = NoDate) =>
    /\ toPersisted(arg[1]).releaseDate = NoDate
    /\ toPersisted(arg[1]).releaseDateISO = NoDate
    /\ toFormValues(Some(toPersisted(arg[1])), defaults).releaseDate = NoDate

\* C30: a compile that is reported successful returns a file that this
\* invocation of the compiler wrote, never an output file that an earlier
\* compile left at the same path.
SuccessReturnsOwnOutput ==
  \A j \in 1..MaxJobs :
    (jobs[j].state = "done" /\ jobs[j].success) => jobs[j].wrote

(***************************************************************************)
(* Properties of the configuration service.                                *)
(***************************************************************************)

\* C15 (as the claim states it): while the user file is missing or
\* malformed and nothing is cached, config:get and the template lookup of
\* generate-pdf succeed with the base configuration merged with the empty
\* override.
MissingOrMalformedLoadsBase ==
  [][(/\ cachedUserConfig = Null
      /\ userFile.state \in {"missing", "malformed"}
      /\ configReturn' # Null
      /\ configReturn'[1].op \in {"config:get", "generate-pdf"})
        => /\ configReturn'[1].success
           /\ configReturn'[1].config =
                Some(buildMergedConfig(baseConfig, EmptyUpdate))]_vars

\* the agreementDefaults of the base with every field that the cached user
\* override has replaced by the override's value
FieldwiseMerge ==
  [f \in Fields |->
     IF /\ cachedUserConfig[1].agreementDefaults # Null
        /\ f \in cachedUserConfig[1].agreementDefaults[1].keys
     THEN cachedUserConfig[1].agreementDefaults[1].values[f]
     ELSE baseConfig.agreementDefaults[f]]

\* the field-wise merge has a legacy list and no licensor and no royalty party
LegacyOnly ==
  /\ Len(FieldwiseMerge.artists) > 0
  /\ Len(FieldwiseMerge.licensors) = 0
  /\ Len(FieldwiseMerge.royaltyParties) = 0

\* C16 (as the claim states it): whenever the merge of base and override has
\* a non-empty legacy list and neither licensors nor royalty parties, the
\* effective configuration holds the projections of the legacy list as
\* licensors and royaltyParties and, where no names were given, the legacy
\* names by role as mainArtists and featuredArtists.
LegacyOnlyConfigIsDerived ==
  (cachedMergedConfig # Null /\ LegacyOnly) =>
    LET effective == cachedMergedConfig[1].agreementDefaults
        derived == deriveFromLegacyArtists(FieldwiseMerge.artists)
    IN /\ effective.licensors = derived.licensors
       /\ effective.royaltyParties = derived.royaltyParties
       /\ Len(FieldwiseMerge.mainArtists) = 0
            => effective.mainArtists = derived.mainArtists
       /\ Len(FieldwiseMerge.featuredArtists) = 0
            => effective.featuredArtists = derived.featuredArtists

\* C17 (as the claim states it): every field of the effective configuration
\* is the override's value when the override has the field, an empty array
\* included, and the base's value otherwise.
MergePrefersOverride ==
  cachedMergedConfig # Null =>
    /\ cachedMergedConfig[1].agreementDefaults = FieldwiseMerge
    /\ cachedMergedConfig[1].templateDirectory =
         IF cachedUserConfig[1].templateDirectory # Null
         THEN cachedUserConfig[1].templateDirectory[1]
         ELSE baseConfig.templateDirectory

\* C17 (amended): every field of agreementDefaults is the override's value
\* when the override has the field and the base's otherwise, an array being
\* replaced as a whole, except that an override with an agreementDefaults
\* section that leaves a legacy list and neither licensors nor royalty
\* parties has its empty party lists filled from the legacy list;
\* templateDirectory is the override's trimmed value when that is not blank
\* and the base's otherwise; the merge with the empty override is the base.
MergePrefersOverrideThenDerives ==
  cachedMergedConfig # Null =>
    LET user == cachedUserConfig[1]
        effective == cachedMergedConfig[1]
        derived == deriveFromLegacyArtists(FieldwiseMerge.artists)
        derives == user.agreementDefaults # Null /\ LegacyOnly
    IN /\ \A f \in Fields :
            effective.agreementDefaults[f] =
              IF derives /\ f \notin {"labelName", "artists"}
                         /\ Len(FieldwiseMerge[f]) = 0
              THEN derived[f] ELSE FieldwiseMerge[f]
       /\ effective.templateDirectory =
            IF user.templateDirectory # Null
               /\ trim(user.templateDirectory[1]) # ""
            THEN trim(user.templateDirectory[1])
            ELSE baseConfig.templateDirectory
       /\ user = EmptyUpdate => effective = baseConfig

\* an override with an empty licensors list has been merged over a base
\* that has a licensor, and the effective configuration has no licensor
EmptyOverrideListReplacedBase ==
  /\ cachedMergedConfig # Null
  /\ cachedUserConfig[1].agreementDefaults # Null
  /\ "licensors" \in cachedUserConfig[1].agreementDefaults[1].keys
  /\ cachedUserConfig[1].agreementDefaults[1].values.licensors = <<>>
  /\ Len(baseConfig.agreementDefaults.licensors) > 0
  /\ cachedMergedConfig[1].agreementDefaults.licensors = <<>>

(***************************************************************************)
(* Properties of sanitize.                                                 *)
(***************************************************************************)

\* the escape of each special character and each other character unchanged,
\* in the order of the input
RECURSIVE EscapedInOrder(_)
EscapedInOrder(chars) ==
  IF chars = <<>> THEN ""
  ELSE (IF Head(chars) \in Specials THEN replacements(Head(chars))
        ELSE Head(chars)) \o EscapedInOrder(Tail(chars))

\* C18: for every input string over the ten special characters and an
\* ordinary character, sanitize returns the concatenation, in input order, of
\* the escape of each special character and of each ordinary character
\* unchanged; null and undefined give the empty string.
SanitizeEscapesInOrder ==
  result # Null =>
    result[1] = IF arg[1].t = "string" THEN EscapedInOrder(arg[1].chars)
                ELSE ""

\* a backslash followed by an ampersand has been sanitized: the backslash of
\* the ampersand's escape is not escaped again
BackslashAmpersandSanitized ==
  /\ result # Null
  /\ arg[1] = Text(<<"\\", "&">>)
  /\ result[1] = "\\textbackslash{}\\&"

====
